---------------------------- MODULE Spec2Model ----------------------------
(***************************************************************************)
(* A model of the health-state core of the monitoring engine:             *)
(*   lib/icinga/checkable-flapping.cpp  (flapping detection)              *)
(*   lib/icinga/host.cpp                (services cache, acknowledgement, *)
(*                                       reachability, config handlers)   *)
(***************************************************************************)
EXTENDS Integers, Sequences, FiniteSets, TLC

(***************************************************************************)
(* Bounds of the model.                                                    *)
(***************************************************************************)
\* number of UpdateFlappingStatus calls explored
MaxCalls == 22
\* number of calls, among those, that report a state change
MaxChanges == 3
\* the latest time the clock reaches in the acknowledgement model
MaxTime == 3

(***************************************************************************)
(* Program constants.                                                      *)
(***************************************************************************)
\* std::bitset<20>, "% 20", "i < 20"
BufferBits == 20

VARIABLES
    \* ---- Checkable, flapping attributes (checkable-flapping.cpp) ----
    flapping_buffer,          \* GetFlappingBuffer(): int
    flapping_index,           \* GetFlappingIndex(): int
    flapping,                 \* GetFlapping(): bool
    flapping_current,         \* GetFlappingCurrent(): double, see FlapValue
    flapping_last_change,     \* GetFlappingLastChange(): double
    flapping_threshold_low,   \* GetFlappingThresholdLow(), percent
    flapping_threshold_high,  \* GetFlappingThresholdHigh(), percent
    now,                      \* Utility::GetTime()
    \* ---- history of the run (not program state) ----
    observations,             \* the stateChange argument of every call so far
    flapping_before,          \* GetFlapping() on entry of the latest call
    \* ---- flapping detection switches ----
    enable_flapping,          \* GetEnableFlapping() of the entity
    app_enable_flapping,      \* IcingaApplication::GetInstance()
                              \*     ->GetEnableFlapping()
    \* ---- history of the run (not program state) ----
    last_flapping_read,       \* the latest IsFlapping call, if it is the
                              \* latest operation on the entity
    \* ---- Host, acknowledgement attributes (host.cpp) ----
    acknowledgement,          \* Get("acknowledgement"): Empty or a type
    acknowledgement_expiry,   \* Get("acknowledgement_expiry"): Empty or a time
    \* ---- history of the run (not program state) ----
    last_ack_read,            \* the latest GetAcknowledgement call, if it
                              \* is the latest operation on the attributes
    \* ---- registry and Host statics (host.cpp) ----
    host_objects,             \* DynamicObject::GetObject("Host", name):
                              \* registered host name -> its attributes
    service_objects,          \* DynamicType::GetByName("Service")->GetObjects():
                              \* registered service name -> its attributes
    m_ServicesCache,          \* Host::m_ServicesCache: host name -> vector
    m_ServicesCacheValid,     \* Host::m_ServicesCacheValid
    m_InitializerDone,        \* Host::m_InitializerDone
    dependencies,             \* host name -> Get("hostdependencies"),
                              \* Get("servicedependencies"), Get("hostchecks")
    service_status,           \* service name -> GetLastCheckResult(),
                              \* GetStateType(), GetState()
    \* ---- workers that use the services cache at the same time ----
    pc,                       \* worker -> the statement it is at
    local,                    \* worker -> its local variables
    \* ---- history of the run (not program state) ----
    retired,                  \* the service names unregistered by a worker
    last_op                   \* the latest operation on the registry and
                              \* what it returned

flapVars == <<flapping_buffer, flapping_index, flapping, flapping_current,
              flapping_last_change, flapping_threshold_low,
              flapping_threshold_high, now, observations, flapping_before,
              enable_flapping, app_enable_flapping, last_flapping_read>>

ackVars == <<acknowledgement, acknowledgement_expiry, last_ack_read>>

flapVarsNoClock ==
    <<flapping_buffer, flapping_index, flapping, flapping_current,
      flapping_last_change, flapping_threshold_low, flapping_threshold_high,
      observations, flapping_before,
      enable_flapping, app_enable_flapping, last_flapping_read>>

cfgVars == <<host_objects, service_objects, m_ServicesCache,
             m_ServicesCacheValid, m_InitializerDone, last_op>>

depVars == <<dependencies, service_status>>

workerVars == <<pc, local, retired>>

vars == <<flapVars, ackVars, cfgVars, depVars, workerVars>>

\* An attribute that is not set (an empty Value, a null pointer), and one
\* that holds v.
Empty == <<>>
Some(v) == <<v>>
IsEmpty(value) == value = <<>>
ValueOf(value) == value[1]

(***************************************************************************)
(* Flapping detection: Checkable::UpdateFlappingStatus                     *)
(***************************************************************************)

Pow2(n) == 2^n

\* std::bitset<20>(int): the low 20 bits of the value
ToBitset(v) == v % Pow2(BufferBits)

\* std::bitset::test
BitTest(buf, i) == (buf \div Pow2(i)) % 2 = 1

\* std::bitset::set(pos, value)
BitSet(buf, i, v) ==
    IF BitTest(buf, i) = v THEN buf
    ELSE IF v THEN buf + Pow2(i) ELSE buf - Pow2(i)

\* every slot weighing what the newest one weighs
SlotWeight100Newest(i) == 118

\* The weight "0.8 + (0.02 * i)" of the slot of age i, in hundredths.
SlotWeight100(i) == 80 + 2 * i

\* the buffer with all 20 bits set
AllOnes == Pow2(BufferBits) - 1

\* The loop of lines 40-45: the weighted total "stateChanges", in hundredths.
RECURSIVE StateChanges100From(_, _, _)
StateChanges100From(buf, oldestIndex, i) ==
    IF i >= BufferBits THEN 0
    ELSE (IF BitTest(buf, (oldestIndex + i) % BufferBits)
             THEN SlotWeight100(i) ELSE 0)
         + StateChanges100From(buf, oldestIndex, i + 1)

StateChanges100(buf, oldestIndex) == StateChanges100From(buf, oldestIndex, 0)

(***************************************************************************)
(* flappingValue = 100.0 * stateChanges / 20.0 is a double.  With S100 the *)
(* exact weighted total in hundredths, its exact value is S100 / 20        *)
(* percent.  The double the code computes lies within a few units in the   *)
(* last place of that: a FlapValue is [n20, ulp], the exact value times    *)
(* 20 and the sign of the rounding error (-1, 0, 1) where the exact value  *)
(* is a whole number of percent, the only place where the error can decide *)
(* a comparison with a threshold of a whole number of percent (elsewhere   *)
(* ulp is 0).  Which sign a given buffer yields is left open, except that  *)
(* an empty sum is exactly 0.0.                                            *)
(***************************************************************************)
RoundingSigns(s100) ==
    IF s100 # 0 /\ s100 % 20 = 0 THEN {-1, 0, 1} ELSE {0}

FlapValue(s100, ulp) == [n20 |-> s100, ulp |-> ulp]

\* "flappingValue > threshold", the threshold a whole number of percent
ValueGreater(v, threshold) ==
    \/ v.n20 > 20 * threshold
    \/ v.n20 = 20 * threshold /\ v.ulp = 1

ValueEquals(v, threshold) == v.n20 = 20 * threshold /\ v.ulp = 0

\* a hysteresis that compares with ">=" instead of ">"
NewFlappingNonStrict(wasFlapping, value, low, high) ==
    IF wasFlapping
        THEN ValueGreater(value, low) \/ ValueEquals(value, low)
        ELSE ValueGreater(value, high) \/ ValueEquals(value, high)

\* lines 49-54: the hysteresis
NewFlapping(wasFlapping, value, low, high) ==
    IF wasFlapping THEN ValueGreater(value, low)
    ELSE ValueGreater(value, high)

\* line 34: stateChangeBuf.set(oldestIndex, stateChange)
NewBuffer(buffer, index, stateChange) ==
    BitSet(ToBitset(buffer), index, stateChange)

\* an index that wraps one slot too late
NextIndexLate(index) == (index + 1) % (BufferBits + 1)

\* line 35: oldestIndex = (oldestIndex + 1) % 20
NextIndex(index) == (index + 1) % BufferBits

NumChanges(obs) == Cardinality({k \in 1..Len(obs) : obs[k]})

\* no IsFlapping call to speak of
NoFlappingRead == [called |-> FALSE]

\* lines 27-63: the call, whatever calls came before
FlappingStatusUpdated(stateChange) ==
    /\ LET buf == NewBuffer(flapping_buffer, flapping_index, stateChange)
           oldestIndex == NextIndex(flapping_index)
           s100 == StateChanges100(buf, oldestIndex)
       IN  \E ulp \in RoundingSigns(s100) :
             LET flappingValue == FlapValue(s100, ulp)
                 newFlapping == NewFlapping(flapping, flappingValue,
                                    flapping_threshold_low,
                                    flapping_threshold_high)
                 \* line 59 stores the flag, line 61 reads it back
                 storedFlapping == newFlapping
             IN  /\ flapping_buffer' = buf
                 /\ flapping_index' = oldestIndex
                 /\ flapping_current' = flappingValue
                 /\ flapping' = storedFlapping
                 /\ flapping_last_change' =
                        IF newFlapping # storedFlapping THEN now
                        ELSE flapping_last_change
    /\ flapping_before' = flapping
    /\ observations' = Append(observations, stateChange)
    /\ now' = now + 1
    /\ last_flapping_read' = NoFlappingRead
    /\ UNCHANGED <<flapping_threshold_low, flapping_threshold_high,
                   enable_flapping, app_enable_flapping>>
    /\ UNCHANGED <<ackVars, cfgVars, depVars, workerVars>>

\* a call in a run where few calls report a state change
UpdateFlappingStatus(stateChange) ==
    /\ Len(observations) < MaxCalls
    /\ stateChange => NumChanges(observations) < MaxChanges
    /\ FlappingStatusUpdated(stateChange)

\* number of calls that report no state change in a run where most do
MaxQuiet == 1

\* a call in a run where nearly every call reports a state change
UpdateFlappingStatusDense(stateChange) ==
    /\ Len(observations) < MaxCalls
    /\ ~stateChange =>
          Len(observations) - NumChanges(observations) < MaxQuiet
    /\ FlappingStatusUpdated(stateChange)

\* the configured thresholds (low, high), in percent
ThresholdPairs == {<<5, 10>>, <<9, 9>>}

InitFlapping ==
    /\ flapping_buffer = 0
    /\ flapping_index = 0
    /\ flapping = FALSE
    /\ flapping_current = FlapValue(0, 0)
    /\ flapping_last_change = 0
    /\ \E p \in ThresholdPairs :
         /\ flapping_threshold_low = p[1]
         /\ flapping_threshold_high = p[2]
    /\ now = 1
    /\ observations = <<>>
    /\ flapping_before = FALSE
    /\ enable_flapping = TRUE
    /\ app_enable_flapping = TRUE
    /\ last_flapping_read = NoFlappingRead

\* the entity of the flapping model before any call
FlapIdle ==
    /\ flapping_buffer = 0
    /\ flapping_index = 0
    /\ flapping = FALSE
    /\ flapping_current = FlapValue(0, 0)
    /\ flapping_last_change = 0
    /\ flapping_threshold_low = 0
    /\ flapping_threshold_high = 0
    /\ observations = <<>>
    /\ flapping_before = FALSE
    /\ enable_flapping = TRUE
    /\ app_enable_flapping = TRUE
    /\ last_flapping_read = NoFlappingRead

\* number of UpdateFlappingStatus calls explored along with IsFlapping
MaxReadCalls == 3

\* an IsFlapping that does not ask the application
IsFlappingOfEntityOnly(enabled, appEnabled, stored) ==
    IF ~enabled THEN FALSE ELSE stored

\* lines 67-70: what IsFlapping returns
IsFlappingResult(enabled, appEnabled, stored) ==
    IF ~enabled \/ ~appEnabled THEN FALSE ELSE stored

\* the attributes UpdateFlappingStatus stores
FlappingState ==
    <<flapping_buffer, flapping_index, flapping, flapping_current,
      flapping_last_change>>

\* lines 65-71: a call of IsFlapping
IsFlapping ==
    /\ last_flapping_read' =
           [called |-> TRUE,
            enabled |-> enable_flapping,
            app_enabled |-> app_enable_flapping,
            before |-> FlappingState,
            returned |-> IsFlappingResult(enable_flapping,
                                          app_enable_flapping, flapping)]
    /\ UNCHANGED <<flapping_buffer, flapping_index, flapping,
                   flapping_current, flapping_last_change,
                   flapping_threshold_low, flapping_threshold_high, now,
                   observations, flapping_before, enable_flapping,
                   app_enable_flapping>>
    /\ UNCHANGED <<ackVars, cfgVars, depVars, workerVars>>

\* the switch of the entity is set
SetEnableFlapping(value) ==
    /\ enable_flapping # value
    /\ enable_flapping' = value
    /\ last_flapping_read' = NoFlappingRead
    /\ UNCHANGED <<flapping_buffer, flapping_index, flapping,
                   flapping_current, flapping_last_change,
                   flapping_threshold_low, flapping_threshold_high, now,
                   observations, flapping_before, app_enable_flapping>>
    /\ UNCHANGED <<ackVars, cfgVars, depVars, workerVars>>

\* the switch of the application is set
SetAppEnableFlapping(value) ==
    /\ app_enable_flapping # value
    /\ app_enable_flapping' = value
    /\ last_flapping_read' = NoFlappingRead
    /\ UNCHANGED <<flapping_buffer, flapping_index, flapping,
                   flapping_current, flapping_last_change,
                   flapping_threshold_low, flapping_threshold_high, now,
                   observations, flapping_before, enable_flapping>>
    /\ UNCHANGED <<ackVars, cfgVars, depVars, workerVars>>

\* UpdateFlappingStatus, for the first calls on the entity
UpdateFlappingStatusEarly(stateChange) ==
    /\ Len(observations) < MaxReadCalls
    /\ UpdateFlappingStatus(stateChange)

(***************************************************************************)
(* Acknowledgements: Host::GetAcknowledgement and its setters              *)
(***************************************************************************)

\* enum AcknowledgementType
AcknowledgementNone == "AcknowledgementNone"
AcknowledgementNormal == "AcknowledgementNormal"
AcknowledgementSticky == "AcknowledgementSticky"
AcknowledgementTypes ==
    {AcknowledgementNone, AcknowledgementNormal, AcknowledgementSticky}

NoAckRead == [called |-> FALSE]

\* lines 362-370: an expiry that is not set reads as 0
GetAcknowledgementExpiry ==
    IF IsEmpty(acknowledgement_expiry) THEN 0
    ELSE ValueOf(acknowledgement_expiry)

\* an expiry test that takes 0 for a time like any other
AckExpiredZeroIsATime(expiry, time) == expiry < time

\* line 347: expiry != 0 && expiry < Utility::GetTime()
AckExpired(expiry, time) == expiry # 0 /\ expiry < time

\* lines 357-360
SetAcknowledgement(ack) ==
    /\ acknowledgement' = Some(ack)
    /\ last_ack_read' = NoAckRead
    /\ UNCHANGED <<acknowledgement_expiry, now>>

\* lines 372-375
SetAcknowledgementExpiry(timestamp) ==
    /\ acknowledgement_expiry' = Some(timestamp)
    /\ last_ack_read' = NoAckRead
    /\ UNCHANGED <<acknowledgement, now>>

\* lines 334-355
GetAcknowledgement ==
    LET read(returned) ==
            [called |-> TRUE, stored_type |-> acknowledgement,
             stored_expiry |-> acknowledgement_expiry, at |-> now,
             returned |-> returned]
    IN  /\ IF IsEmpty(acknowledgement)
              THEN /\ last_ack_read' = read(AcknowledgementNone)
                   /\ UNCHANGED <<acknowledgement, acknowledgement_expiry>>
           ELSE IF /\ ValueOf(acknowledgement) # AcknowledgementNone
                   /\ AckExpired(GetAcknowledgementExpiry, now)
              THEN /\ acknowledgement' = Some(AcknowledgementNone)
                   /\ acknowledgement_expiry' = Some(0)
                   /\ last_ack_read' = read(AcknowledgementNone)
           ELSE    /\ last_ack_read' = read(ValueOf(acknowledgement))
                   /\ UNCHANGED <<acknowledgement, acknowledgement_expiry>>
        /\ UNCHANGED now

\* time passes
AdvanceTime ==
    /\ now < MaxTime
    /\ now' = now + 1
    /\ UNCHANGED <<acknowledgement, acknowledgement_expiry, last_ack_read>>

\* a host as constructed: neither attribute is set
AckIdle ==
    /\ acknowledgement = Empty
    /\ acknowledgement_expiry = Empty
    /\ last_ack_read = NoAckRead

(***************************************************************************)
(* The registry, the services cache and the configuration handlers         *)
(***************************************************************************)

\* the names hosts are committed under
HostNames == {"a", "a-b"}

\* the keys of inline service declarations, in the order a Dictionary
\* iterates them (its std::map is ordered by key)
SortedServiceKeys == <<"b-c", "c">>
ServiceKeys == {SortedServiceKeys[i] : i \in DOMAIN SortedServiceKeys}

\* the names services are committed under on their own
StandaloneServiceNames == {"c"}

\* line 239: namebuf << item->GetName() << "-" << svcname
\* line 440: GetName() + "-" + name
CombinedName(hostName, svcname) == hostName \o "-" \o svcname

\* every service name of the model, in the order the registry iterates
\* its objects (by name)
SortedServiceNames == <<"a-b-b-c", "a-b-c", "a-c", "c">>
ServiceNames == {SortedServiceNames[i] : i \in DOMAIN SortedServiceNames}

\* the values of a host's "services" attribute that commits supply: not set,
\* or a Dictionary of declarations, each a scalar (the name of a template),
\* a Dictionary, or a value of another type
ServiceDeclarations ==
    {Empty,
     Some("c" :> "scalar"),
     Some("b-c" :> "dictionary"),
     Some("b-c" :> "scalar" @@ "c" :> "dictionary"),
     Some("b-c" :> "scalar" @@ "c" :> "other"),
     Some("b-c" :> "other" @@ "c" :> "scalar")}

EmptyCache == [k \in {} |-> <<>>]

\* The state the handlers act on, as one record.
World ==
    [host_objects |-> host_objects,
     service_objects |-> service_objects,
     m_ServicesCache |-> m_ServicesCache,
     m_ServicesCacheValid |-> m_ServicesCacheValid,
     m_InitializerDone |-> m_InitializerDone]

Becomes(w) ==
    /\ host_objects' = w.host_objects
    /\ service_objects' = w.service_objects
    /\ m_ServicesCache' = w.m_ServicesCache
    /\ m_ServicesCacheValid' = w.m_ServicesCacheValid
    /\ m_InitializerDone' = w.m_InitializerDone

\* lines 377-381
InvalidateServicesCache(w) ==
    [w EXCEPT !.m_ServicesCacheValid = FALSE, !.m_ServicesCache = EmptyCache]

\* m_ServicesCache[key].push_back(service): operator[] makes the entry
PushBack(cache, key, service) ==
    [k \in DOMAIN cache \cup {key} |->
        IF k = key
            THEN Append(IF key \in DOMAIN cache THEN cache[key] ELSE <<>>,
                        service)
            ELSE cache[k]]

\* service->GetHost()->GetName(): the host name the service declares
ServiceHostName(objects, service) == objects[service].host_name

\* lines 390-395: the loop over the registered services
RECURSIVE RebuildFrom(_, _, _)
RebuildFrom(cache, objects, names) ==
    IF names = <<>> THEN cache
    ELSE LET service == Head(names)
         IN  RebuildFrom(
                 IF service \in DOMAIN objects
                     THEN PushBack(cache, ServiceHostName(objects, service),
                                   service)
                     ELSE cache,
                 objects, Tail(names))

\* lines 388-395: the cache as rebuilt from the registry
Rebuild(objects) == RebuildFrom(EmptyCache, objects, SortedServiceNames)

\* lines 383-398
ValidateServicesCache(w) ==
    IF w.m_ServicesCacheValid THEN w
    ELSE [w EXCEPT !.m_ServicesCache = Rebuild(w.service_objects),
                   !.m_ServicesCacheValid = TRUE]

\* line 322: m_ServicesCache[GetName()] makes the entry if there is none
CacheEntry(cache, key) ==
    [k \in DOMAIN cache \cup {key} |->
        IF k \in DOMAIN cache THEN cache[k] ELSE <<>>]

\* line 323: svc.lock() yields the service while the object exists, that
\* is, while the registry or anyone else holds a Ptr to it
Lock(alive, service) == service \in alive

\* a GetServices that does not validate the cache first
GetServicesUnvalidated(w, hostName) ==
    LET cache == CacheEntry(w.m_ServicesCache, hostName)
        entry == cache[hostName]
    IN  [world |-> [w EXCEPT !.m_ServicesCache = cache],
         services |-> {entry[i] : i \in DOMAIN entry}]

\* lines 316-332: the world after the call and the set returned
GetServicesOf(w, hostName) ==
    LET w1 == ValidateServicesCache(w)
        cache == CacheEntry(w1.m_ServicesCache, hostName)
        entry == cache[hostName]
    IN  [world |-> [w1 EXCEPT !.m_ServicesCache = cache],
         services |-> {entry[i] : i \in
                         {j \in DOMAIN entry :
                            Lock(DOMAIN w1.service_objects, entry[j])}}]

\* ConfigItem::Commit of a Service item: the service is registered under
\* its name with the host name it declares, and the registration's hook
\* invalidates the services cache before the call returns.
CommitServiceItem(w, name, hostName) ==
    InvalidateServicesCache(
        [w EXCEPT !.service_objects =
            [n \in DOMAIN w.service_objects \cup {name} |->
                IF n = name THEN [host_name |-> hostName]
                ELSE w.service_objects[n]]])

\* ConfigItem::Unregister of a Service item: a registered service leaves
\* the registry, and the hook invalidates the services cache.
UnregisterServiceItem(w, name) ==
    IF name \notin DOMAIN w.service_objects THEN w
    ELSE InvalidateServicesCache(
        [w EXCEPT !.service_objects =
            [n \in DOMAIN w.service_objects \ {name} |->
                w.service_objects[n]]])

RECURSIVE UnregisterServiceItems(_, _)
UnregisterServiceItems(w, names) ==
    IF names = <<>> THEN w
    ELSE UnregisterServiceItems(UnregisterServiceItem(w, Head(names)),
                                Tail(names))

\* the names of a set, in the order a Dictionary iterates them
InNameOrder(names) == SelectSeq(SortedServiceNames, LAMBDA n : n \in names)

\* lines 250-264: a declaration the handler accepts
ValidDescription(kind) == kind = "scalar" \/ kind = "dictionary"

\* lines 237-270: the loop over the declarations.  Yields the world, the
\* new set, and whether line 263 threw.
RECURSIVE CommitDeclarations(_, _, _, _, _)
CommitDeclarations(w, itemName, serviceDescs, keys, newServices) ==
    IF keys = <<>>
        THEN [world |-> w, newServices |-> newServices, threw |-> FALSE]
    ELSE LET svcname == Head(keys)
             name == CombinedName(itemName, svcname)
         IN  IF ~ValidDescription(serviceDescs[svcname])
                 THEN [world |-> w, newServices |-> newServices,
                       threw |-> TRUE]
                 ELSE CommitDeclarations(
                          CommitServiceItem(w, name, itemName), itemName,
                          serviceDescs, Tail(keys),
                          newServices \cup {name})

\* a diff that unregisters every old service
StaleServicesAll(oldServices, newServices) ==
    IF IsEmpty(oldServices) THEN {}
    ELSE ValueOf(oldServices)

\* lines 273-282: the old services to unregister
StaleServices(oldServices, newServices) ==
    IF IsEmpty(oldServices) THEN {}
    ELSE ValueOf(oldServices) \ newServices

\* a handler that stores the set built so far when the loop aborts
ObjectCommittedHandlerStoring(w, item) ==
    IF item.type # "Host" THEN [world |-> w, threw |-> FALSE]
    ELSE IF item.name \notin DOMAIN w.host_objects
        THEN [world |-> w, threw |-> FALSE]
    ELSE
        LET host == w.host_objects[item.name]
            serviceDescs == host.services
            built ==
                IF IsEmpty(serviceDescs)
                    THEN [world |-> w, newServices |-> {}, threw |-> FALSE]
                    ELSE CommitDeclarations(w, item.name,
                             ValueOf(serviceDescs),
                             SelectSeq(SortedServiceKeys,
                                 LAMBDA k : k \in DOMAIN ValueOf(serviceDescs)),
                             {})
            w2 == IF built.threw THEN built.world
                  ELSE UnregisterServiceItems(built.world,
                           InNameOrder(StaleServices(
                               host.convenience_services,
                               built.newServices)))
        IN  [world |->
                [w2 EXCEPT
                    !.host_objects[item.name].convenience_services =
                        Some(built.newServices)],
             threw |-> built.threw]

\* lines 216-285.  Yields the world after the handler and whether it threw.
ObjectCommittedHandler(w, item) ==
    IF item.type # "Host" THEN [world |-> w, threw |-> FALSE]
    ELSE IF item.name \notin DOMAIN w.host_objects
        THEN [world |-> w, threw |-> FALSE]
    ELSE
        LET host == w.host_objects[item.name]
            oldServices == host.convenience_services
            serviceDescs == host.services
            built ==
                IF IsEmpty(serviceDescs)
                    THEN [world |-> w, newServices |-> {}, threw |-> FALSE]
                    ELSE CommitDeclarations(w, item.name,
                             ValueOf(serviceDescs),
                             SelectSeq(SortedServiceKeys,
                                 LAMBDA k : k \in DOMAIN ValueOf(serviceDescs)),
                             {})
        IN  IF built.threw THEN [world |-> built.world, threw |-> TRUE]
            ELSE
                LET w2 == UnregisterServiceItems(built.world,
                              InNameOrder(StaleServices(oldServices,
                                                        built.newServices)))
                IN  [world |->
                        [w2 EXCEPT
                            !.host_objects[item.name].convenience_services =
                                Some(built.newServices)],
                     threw |-> FALSE]

\* an ObjectRemovedHandler that spares the first service
RemovedHostServicesButFirst(services) ==
    IF IsEmpty(services) \/ ValueOf(services) = {} THEN <<>>
    ELSE Tail(InNameOrder(ValueOf(services)))

\* lines 297-305: the services the handler unregisters
RemovedHostServices(services) ==
    IF IsEmpty(services) THEN <<>>
    ELSE InNameOrder(ValueOf(services))

\* lines 287-306.  item.object is item->GetDynamicObject(): the attributes
\* of the host the item made, or Empty for an item with no object.
ObjectRemovedHandler(w, item) ==
    IF item.type # "Host" THEN w
    ELSE IF IsEmpty(item.object) THEN w
    ELSE UnregisterServiceItems(w,
             RemovedHostServices(ValueOf(item.object).convenience_services))

\* ConfigItem::OnCommitted and OnRemoved reach the handlers once the first
\* Host has been constructed (lines 43-48)
Connected(w) == w.m_InitializerDone

\* The attributes of a Host as constructed.
NewHost(services) == [services |-> services, convenience_services |-> Empty]

\* ConfigItem::Commit of a Host item that is not abstract: the host object
\* is made (lines 40-52) or updated with the item's attributes and
\* registered; then OnCommitted fires.
CommitHost(name, services) ==
    LET w0 == World
        w1 == [w0 EXCEPT
                 !.host_objects =
                     [h \in DOMAIN w0.host_objects \cup {name} |->
                         IF h # name THEN w0.host_objects[h]
                         ELSE IF name \in DOMAIN w0.host_objects
                             THEN [w0.host_objects[name]
                                     EXCEPT !.services = services]
                             ELSE NewHost(services)],
                 !.m_InitializerDone = TRUE]
        done == ObjectCommittedHandler(w1, [type |-> "Host", name |-> name])
    IN  /\ Becomes(done.world)
        /\ last_op' = [op |-> "CommitHost", host |-> name,
                       old |-> IF name \in DOMAIN host_objects
                                  THEN host_objects[name].convenience_services
                                  ELSE Empty,
                       threw |-> done.threw]

\* ConfigItem::Commit of an abstract Host item: no object is made.
CommitAbstractHost(name) ==
    /\ name \notin DOMAIN host_objects
    /\ LET done == IF Connected(World)
                      THEN ObjectCommittedHandler(World,
                               [type |-> "Host", name |-> name])
                      ELSE [world |-> World, threw |-> FALSE]
       IN  /\ Becomes(done.world)
           /\ last_op' = [op |-> "CommitAbstractHost", host |-> name,
                          threw |-> done.threw]

\* ConfigItem::Commit of a Service item of its own.
CommitService(name, hostName) ==
    LET w1 == CommitServiceItem(World, name, hostName)
        done == IF Connected(w1)
                   THEN ObjectCommittedHandler(w1,
                            [type |-> "Service", name |-> name])
                   ELSE [world |-> w1, threw |-> FALSE]
    IN  /\ Becomes(done.world)
        /\ last_op' = [op |-> "CommitService", service |-> name]

\* ConfigItem::Unregister of a Service item of its own.
RemoveService(name) ==
    /\ name \in DOMAIN service_objects
    /\ LET w1 == UnregisterServiceItem(World, name)
           w2 == IF Connected(w1)
                    THEN ObjectRemovedHandler(w1,
                             [type |-> "Service", name |-> name,
                              object |-> Empty])
                    ELSE w1
       IN  /\ Becomes(w2)
           /\ last_op' = [op |-> "RemoveService", service |-> name]

\* ConfigItem::Unregister of a Host item: the host leaves the registry,
\* then OnRemoved fires with the item, which still refers to its object.
RemoveHost(name) ==
    /\ name \in DOMAIN host_objects
    /\ LET w0 == World
           w1 == [w0 EXCEPT !.host_objects =
                     [h \in DOMAIN w0.host_objects \ {name} |->
                         w0.host_objects[h]]]
           w2 == ObjectRemovedHandler(w1,
                     [type |-> "Host", name |-> name,
                      object |-> Some(host_objects[name])])
       IN  /\ Becomes(w2)
           /\ last_op' = [op |-> "RemoveHost", host |-> name,
                          services |->
                              host_objects[name].convenience_services]

\* ConfigItem::Unregister of an abstract Host item.
RemoveAbstractHost(name) ==
    /\ name \notin DOMAIN host_objects
    /\ LET w1 == IF Connected(World)
                    THEN ObjectRemovedHandler(World,
                             [type |-> "Host", name |-> name,
                              object |-> Empty])
                    ELSE World
       IN  /\ Becomes(w1)
           /\ last_op' = [op |-> "RemoveAbstractHost", host |-> name]

\* a call of Host::InvalidateServicesCache
CallInvalidateServicesCache ==
    /\ Becomes(InvalidateServicesCache(World))
    /\ last_op' = [op |-> "InvalidateServicesCache"]

\* a call of Host::GetServices on a registered host
GetServices(hostName) ==
    /\ hostName \in DOMAIN host_objects
    /\ LET got == GetServicesOf(World, hostName)
       IN  /\ Becomes(got.world)
           /\ last_op' = [op |-> "GetServices", host |-> hostName,
                          services |-> got.services]

\* the program as started: no object, the cache empty and marked valid
\* (lines 24-25, 38)
CfgIdle ==
    /\ host_objects = [h \in {} |-> NewHost(Empty)]
    /\ service_objects = [n \in {} |-> [host_name |-> ""]]
    /\ m_ServicesCache = EmptyCache
    /\ m_ServicesCacheValid = TRUE
    /\ m_InitializerDone = FALSE
    /\ last_op = [op |-> "none"]

(***************************************************************************)
(* The services cache under concurrent workers.  No statement of           *)
(* host.cpp takes a lock: the workers interleave statement by statement.   *)
(***************************************************************************)

Workers == {"w1", "w2"}

\* the services the workers register, and the hosts they declare
WorkerServiceNames == {"a-c", "c"}

\* the hosts a service of the workers can declare: c is a service of
\* host a, a-c a service of either host
WorkerServiceHosts(name) == IF name = "c" THEN {"a"} ELSE HostNames

IdleLocal ==
    [changed |-> "", host |-> "", todo |-> <<>>, stable |-> {}, services |-> {},
     dangling |-> FALSE, held |-> {}]

(***************************************************************************)
(* m_ServicesCache is a std::map of std::vector that every thread reads    *)
(* and writes with no lock.  Two statements on it that run at the same     *)
(* time, one of them a write, are a data race, and a loop over a vector    *)
(* that another thread has destroyed or reallocated reads freed memory:    *)
(* both are undefined behaviour.  Its outcomes are left open: the          *)
(* statement may do what it does alone, leave the map with any content,    *)
(* read any service, or end the process with a fault.                      *)
(***************************************************************************)

\* the parts of the map a statement touches: the tree of the std::map
\* ("tree") and the vector under a host name (the host name)
NoAccess == [reads |-> {}, writes |-> {}]

\* m_ServicesCache[key]: the tree is searched, and written when the key is
\* new
Subscript(key) ==
    IF key \in DOMAIN m_ServicesCache
        THEN [reads |-> {"tree"}, writes |-> {}]
        ELSE [reads |-> {"tree"}, writes |-> {"tree"}]

\* what the next statement of the worker reads and writes of the map:
\* clear() of lines 380 and 388, operator[] and push_back of line 394,
\* operator[] and begin() of line 322, the element read of line 323
Footprint(w) ==
    IF pc[w] \in {"hook_clear", "invalidate_clear", "rebuild_clear"}
        THEN [reads |-> {}, writes |-> {"tree"} \cup HostNames]
    ELSE IF pc[w] = "rebuild_loop" /\ local[w].todo # <<>>
        THEN LET key == Head(local[w].todo).host_name
             IN  [reads |-> Subscript(key).reads,
                  writes |-> Subscript(key).writes \cup {key}]
    ELSE IF pc[w] = "read"
        THEN [reads |-> Subscript(local[w].host).reads
                           \cup {local[w].host},
              writes |-> Subscript(local[w].host).writes]
    ELSE IF pc[w] = "read_loop" /\ local[w].todo # <<>>
        THEN [reads |-> {local[w].host}, writes |-> {}]
    ELSE NoAccess

\* the next statement of the worker writes the map
MapWrite(w) == Footprint(w).writes # {}

\* the next statement of the worker reads or writes the map
MapAccess(w) == Footprint(w) # NoAccess

\* the next statement of the worker can run at the same time as a write
\* of another worker to a part of the map that it reads or writes
Races(w) ==
    \E o \in Workers \ {w} :
        (Footprint(w).reads \cup Footprint(w).writes)
            \cap Footprint(o).writes # {}

\* the services that exist: the registered ones, and those a worker
\* holds a Ptr to (the objects of the loop of line 391, the object of
\* line 390 until ValidateServicesCache returns, the set of line 318 and
\* the set returned)
Alive ==
    DOMAIN service_objects
        \cup UNION {local[w].held \cup local[w].services : w \in Workers}

\* what a read of freed or racing memory can yield that is no service
UnknownService == "?"

\* the vectors a read of line 322 that races can find: longer than the
\* services are many (two rebuilds at the same time push a service twice:
\* [a-c, c, c]), and of unknown content: the worker is marked dangling,
\* and each pass over such a vector yields any service, nothing, or
\* something that is no service
DamagedEntries ==
    UNION {[1..k -> {UnknownService}] :
              k \in 0..(Cardinality(WorkerServiceNames) + 1)}

\* a map whose nodes a data race has damaged; it is no content a run
\* without a race can give the map (no host has this name)
DamagedMap == [k \in {"damaged"} |-> <<>>]

\* the map after a write: what the statement does alone, or a damaged map
\* when the write races or the map is damaged already
WriteOutcomes(w, alone) ==
    IF Races(w) \/ m_ServicesCache = DamagedMap
        THEN {alone, DamagedMap} ELSE {alone}

\* a write destroys or reallocates vectors of the map: the loops of other
\* workers over a vector under one of the keys go on over freed memory
Invalidated(by, locals, keys) ==
    [w \in Workers |->
        IF w # by /\ pc[w] = "read_loop" /\ locals[w].host \in keys
              /\ locals[w].todo # <<>>
            THEN [locals[w] EXCEPT !.dangling = TRUE]
            ELSE locals[w]]

\* the keys whose vectors a write destroys or reallocates, given the keys
\* the statement touches when it runs alone
Destroyed(cache, keys) ==
    IF cache = DamagedMap THEN HostNames ELSE keys

\* a mutation of the registry is seen by the calls in progress: a service
\* registered or unregistered during a GetServices call was not there
\* throughout the call
Disturb(by, name) ==
    [w \in Workers |->
        IF w = by THEN [local[w] EXCEPT !.changed = name]
        ELSE [local[w] EXCEPT !.stable = @ \ {name}]]

\* the services whose registration has not run its hook to the end
Unsettled == {local[w].changed : w \in Workers} \ {""}

\* DynamicObject::Register of a service; the hook that invalidates the
\* cache follows (WorkerInvalidateFlag, WorkerInvalidateClear)
WorkerRegister(w, name, hostName) ==
    /\ pc[w] = "idle"
    /\ name \notin DOMAIN service_objects
    /\ name \notin retired
    /\ service_objects' =
           [n \in DOMAIN service_objects \cup {name} |->
               IF n = name THEN [host_name |-> hostName]
               ELSE service_objects[n]]
    /\ local' = Disturb(w, name)
    /\ pc' = [pc EXCEPT ![w] = "hook_flag"]
    /\ UNCHANGED <<m_ServicesCache, m_ServicesCacheValid, retired>>

\* DynamicObject::Unregister of a service; the hook follows
WorkerUnregister(w, name) ==
    /\ pc[w] = "idle"
    /\ name \in DOMAIN service_objects
    /\ service_objects' =
           [n \in DOMAIN service_objects \ {name} |-> service_objects[n]]
    /\ retired' = retired \cup {name}
    /\ local' = Disturb(w, name)
    /\ pc' = [pc EXCEPT ![w] = "hook_flag"]
    /\ UNCHANGED <<m_ServicesCache, m_ServicesCacheValid>>

\* a call of InvalidateServicesCache with no mutation before it
WorkerCallInvalidate(w) ==
    /\ pc[w] = "idle"
    /\ pc' = [pc EXCEPT ![w] = "invalidate_flag"]
    /\ UNCHANGED <<service_objects, m_ServicesCache, m_ServicesCacheValid,
                   local, retired>>

\* line 379: m_ServicesCacheValid = false
WorkerInvalidateFlag(w) ==
    /\ pc[w] \in {"hook_flag", "invalidate_flag"}
    /\ m_ServicesCacheValid' = FALSE
    /\ pc' = [pc EXCEPT ![w] = IF pc[w] = "hook_flag" THEN "hook_clear"
                                ELSE "invalidate_clear"]
    /\ UNCHANGED <<service_objects, m_ServicesCache, local, retired>>

\* line 380: m_ServicesCache.clear()
WorkerInvalidateClear(w) ==
    /\ pc[w] \in {"hook_clear", "invalidate_clear"}
    /\ m_ServicesCache' \in WriteOutcomes(w, EmptyCache)
    /\ local' = Invalidated(w, [local EXCEPT ![w] = IdleLocal],
                            HostNames)
    /\ pc' = [pc EXCEPT ![w] = "idle"]
    /\ UNCHANGED <<service_objects, m_ServicesCacheValid, retired>>

\* line 316: a call of GetServices on a host begins
WorkerGetServices(w, hostName) ==
    /\ pc[w] = "idle"
    /\ local' = [local EXCEPT ![w] =
                    [IdleLocal EXCEPT
                        !.host = hostName,
                        !.stable = {n \in DOMAIN service_objects \ Unsettled :
                                      service_objects[n].host_name = hostName}]]
    /\ pc' = [pc EXCEPT ![w] = "validate"]
    /\ UNCHANGED <<service_objects, m_ServicesCache, m_ServicesCacheValid,
                   retired>>

\* lines 385-386: if (m_ServicesCacheValid) return
WorkerValidateCheck(w) ==
    /\ pc[w] = "validate"
    /\ pc' = [pc EXCEPT ![w] = IF m_ServicesCacheValid THEN "read"
                                ELSE "rebuild_clear"]
    /\ UNCHANGED <<service_objects, m_ServicesCache, m_ServicesCacheValid,
                   local, retired>>

\* line 388: m_ServicesCache.clear()
WorkerRebuildClear(w) ==
    /\ pc[w] = "rebuild_clear"
    /\ m_ServicesCache' \in WriteOutcomes(w, EmptyCache)
    /\ local' = Invalidated(w, local, HostNames)
    /\ pc' = [pc EXCEPT ![w] = "rebuild_begin"]
    /\ UNCHANGED <<service_objects, m_ServicesCacheValid, retired>>

\* the registered services in the order of their names, each with the host
\* name it declares: the objects stay as they are while the loop holds them
RECURSIVE Snapshot(_, _)
Snapshot(objects, names) ==
    IF names = <<>> THEN <<>>
    ELSE IF Head(names) \in DOMAIN objects
        THEN <<[service |-> Head(names),
                host_name |-> ServiceHostName(objects, Head(names))]>>
             \o Snapshot(objects, Tail(names))
    ELSE Snapshot(objects, Tail(names))

\* line 391: GetObjects(), the services the loop will visit
WorkerRebuildBegin(w) ==
    /\ pc[w] = "rebuild_begin"
    /\ local' = [local EXCEPT
                    ![w].todo = Snapshot(service_objects, SortedServiceNames),
                    ![w].held = DOMAIN service_objects]
    /\ pc' = [pc EXCEPT ![w] = "rebuild_loop"]
    /\ UNCHANGED <<service_objects, m_ServicesCache, m_ServicesCacheValid,
                   retired>>

\* lines 392-394: one pass of the loop
WorkerRebuildPush(w) ==
    /\ pc[w] = "rebuild_loop"
    /\ local[w].todo # <<>>
    /\ LET key == Head(local[w].todo).host_name
           alone == IF m_ServicesCache = DamagedMap THEN DamagedMap
                    ELSE PushBack(m_ServicesCache, key,
                                  Head(local[w].todo).service)
       IN  \E cache \in WriteOutcomes(w, alone) :
               /\ m_ServicesCache' = cache
               /\ local' = Invalidated(w,
                               [local EXCEPT ![w].todo = Tail(@)],
                               Destroyed(cache, {key}))
    /\ UNCHANGED <<service_objects, m_ServicesCacheValid, pc, retired>>

\* the object the loop of line 391 visited last, which the variable of
\* line 390 holds until ValidateServicesCache returns
LastObject(names) ==
    IF names = {} THEN {}
    ELSE {InNameOrder(names)[Cardinality(names)]}

\* line 395: the loop ends and lets go of the objects but the last
WorkerRebuildLoopEnd(w) ==
    /\ pc[w] = "rebuild_loop"
    /\ local[w].todo = <<>>
    /\ local' = [local EXCEPT ![w].held = LastObject(@)]
    /\ pc' = [pc EXCEPT ![w] = "rebuild_flag"]
    /\ UNCHANGED <<service_objects, m_ServicesCache, m_ServicesCacheValid,
                   retired>>

\* line 397: m_ServicesCacheValid = true
WorkerRebuildDone(w) ==
    /\ pc[w] = "rebuild_flag"
    /\ m_ServicesCacheValid' = TRUE
    /\ pc' = [pc EXCEPT ![w] = "validate_return"]
    /\ UNCHANGED <<service_objects, m_ServicesCache, local, retired>>

\* line 398: ValidateServicesCache returns and lets go of the last object
WorkerValidateReturn(w) ==
    /\ pc[w] = "validate_return"
    /\ local' = [local EXCEPT ![w].held = {}]
    /\ pc' = [pc EXCEPT ![w] = "read"]
    /\ UNCHANGED <<service_objects, m_ServicesCache, m_ServicesCacheValid,
                   retired>>

\* line 322: m_ServicesCache[GetName()] makes the entry if there is none,
\* and the loop takes the begin and the end of the vector
WorkerRead(w) ==
    /\ pc[w] = "read"
    /\ LET damaged == m_ServicesCache = DamagedMap
           alone == IF damaged THEN DamagedMap
                    ELSE CacheEntry(m_ServicesCache, local[w].host)
           found == IF damaged THEN <<>> ELSE alone[local[w].host]
       IN  \E cache \in IF MapWrite(w) THEN WriteOutcomes(w, alone)
                         ELSE {alone},
              entry \in IF Races(w) \/ damaged
                            THEN {found} \cup DamagedEntries
                            ELSE {found} :
               /\ m_ServicesCache' = cache
               /\ local' = Invalidated(w,
                               [local EXCEPT
                                   ![w].todo = entry,
                                   ![w].dangling =
                                       UnknownService \in
                                           {entry[i] : i \in DOMAIN entry}],
                               Destroyed(cache, {}))
    /\ pc' = [pc EXCEPT ![w] = "read_loop"]
    /\ UNCHANGED <<service_objects, m_ServicesCacheValid, retired>>

\* lines 323-328: one pass of the loop: svc.lock(), and the insert if the
\* service exists.  Over freed memory, or under a racing write, the pass
\* inserts nothing, any service, or something that is no service.
WorkerReadElement(w) ==
    /\ pc[w] = "read_loop"
    /\ local[w].todo # <<>>
    /\ \E found \in
            IF local[w].dangling \/ Races(w)
                THEN {{}} \cup {{n} : n \in WorkerServiceNames
                                            \cup {UnknownService}}
            ELSE IF Lock(Alive, Head(local[w].todo))
                THEN {{Head(local[w].todo)}}
            ELSE {{}} :
           local' = [local EXCEPT ![w].todo = Tail(@),
                                  ![w].services = @ \cup found]
    /\ UNCHANGED <<service_objects, m_ServicesCache, m_ServicesCacheValid,
                   pc, retired>>

\* line 331: return services
WorkerReadDone(w) ==
    /\ pc[w] = "read_loop"
    /\ local[w].todo = <<>>
    /\ pc' = [pc EXCEPT ![w] = "returned"]
    /\ UNCHANGED <<service_objects, m_ServicesCache, m_ServicesCacheValid,
                   local, retired>>

\* a racing statement on the map, or a pass of the loop over freed memory,
\* ends the process with a fault (SIGSEGV, SIGABRT)
WorkerFault(w) ==
    /\ \/ MapAccess(w) /\ Races(w)
       \/ MapAccess(w) /\ m_ServicesCache = DamagedMap
       \/ pc[w] = "read_loop" /\ local[w].dangling /\ local[w].todo # <<>>
    /\ pc' = [o \in Workers |-> "fault"]
    /\ UNCHANGED <<service_objects, m_ServicesCache, m_ServicesCacheValid,
                   local, retired>>

\* the caller goes on
WorkerReturn(w) ==
    /\ pc[w] = "returned"
    /\ local' = [local EXCEPT ![w] = IdleLocal]
    /\ pc' = [pc EXCEPT ![w] = "idle"]
    /\ UNCHANGED <<service_objects, m_ServicesCache, m_ServicesCacheValid,
                   retired>>

\* no worker is running
WorkersIdle ==
    /\ pc = [w \in Workers |-> "idle"]
    /\ local = [w \in Workers |-> IdleLocal]
    /\ retired = {}

(***************************************************************************)
(* Host::ObjectCommittedHandler, statement by statement                    *)
(***************************************************************************)

\* the worker that commits configuration
Committer == "w1"

\* a handler that unregisters before it commits
HandlerPhasesDiffFirst == <<"unregister_loop", "commit_loop", "store">>

\* lines 237-284: the loops and the store, in the order of the code
HandlerPhases == <<"commit_loop", "unregister_loop", "store">>

\* the statement after a loop
NextPhase(phase) ==
    LET i == CHOOSE k \in DOMAIN HandlerPhases : HandlerPhases[k] = phase
    IN  IF i < Len(HandlerPhases) THEN HandlerPhases[i + 1] ELSE "idle"

\* the "<host>-<key>" names of a host's declarations
DeclaredNames(hostName, services) ==
    IF IsEmpty(services) THEN {}
    ELSE {CombinedName(hostName, k) : k \in DOMAIN ValueOf(services)}

\* ConfigItem::Commit of a Host item: the host object is made or updated
\* and registered, OnCommitted fires, and the handler runs lines 216-232.
BeginCommitHost(name, services) ==
    /\ pc[Committer] = "idle"
    /\ host_objects' =
           [h \in DOMAIN host_objects \cup {name} |->
               IF h # name THEN host_objects[h]
               ELSE IF name \in DOMAIN host_objects
                   THEN [host_objects[name] EXCEPT !.services = services]
                   ELSE NewHost(services)]
    /\ m_InitializerDone' = TRUE
    /\ local' = [local EXCEPT ![Committer] =
           [item |-> name,
            serviceDescs |-> services,
            keys |-> IF IsEmpty(services) THEN <<>>
                     ELSE SelectSeq(SortedServiceKeys,
                              LAMBDA k : k \in DOMAIN ValueOf(services)),
            oldServices |-> IF name \in DOMAIN host_objects
                               THEN host_objects[name].convenience_services
                               ELSE Empty,
            newServices |-> {},
            todo |-> IF name \in DOMAIN host_objects
                        THEN RemovedHostServices(
                                 host_objects[name].convenience_services)
                        ELSE <<>>,
            registered |-> DOMAIN service_objects]]
    /\ pc' = [pc EXCEPT ![Committer] = HandlerPhases[1]]
    /\ UNCHANGED <<service_objects, m_ServicesCache, m_ServicesCacheValid,
                   retired, last_op>>

\* lines 237-270: one pass of the loop over the declarations
HandlerCommit ==
    /\ pc[Committer] = "commit_loop"
    /\ local[Committer].keys # <<>>
    /\ LET l == local[Committer]
           svcname == Head(l.keys)
           name == CombinedName(l.item, svcname)
       IN  IF ~ValidDescription(ValueOf(l.serviceDescs)[svcname])
               THEN \* line 263 throws: the handler is left
                    /\ pc' = [pc EXCEPT ![Committer] = "idle"]
                    /\ local' = [local EXCEPT ![Committer] = IdleLocal]
                    /\ UNCHANGED <<host_objects, service_objects,
                                   m_ServicesCache, m_ServicesCacheValid,
                                   m_InitializerDone>>
               ELSE /\ Becomes(CommitServiceItem(World, name, l.item))
                    /\ local' = [local EXCEPT
                                    ![Committer].keys = Tail(@),
                                    ![Committer].newServices = @ \cup {name}]
                    /\ UNCHANGED pc
    /\ UNCHANGED <<retired, last_op>>

\* lines 275-281: one pass of the loop over the old services
HandlerUnregister ==
    /\ pc[Committer] = "unregister_loop"
    /\ local[Committer].todo # <<>>
    /\ LET l == local[Committer]
           service == Head(l.todo)
       IN  IF service \notin l.newServices
               THEN Becomes(UnregisterServiceItem(World, service))
               ELSE UNCHANGED <<host_objects, service_objects,
                                m_ServicesCache, m_ServicesCacheValid,
                                m_InitializerDone>>
    /\ local' = [local EXCEPT ![Committer].todo = Tail(@)]
    /\ UNCHANGED <<pc, retired, last_op>>

\* a loop has visited every entry
HandlerLoopDone ==
    /\ \/ pc[Committer] = "commit_loop" /\ local[Committer].keys = <<>>
       \/ pc[Committer] = "unregister_loop" /\ local[Committer].todo = <<>>
    /\ pc' = [pc EXCEPT ![Committer] = NextPhase(pc[Committer])]
    /\ UNCHANGED <<host_objects, service_objects, m_ServicesCache,
                   m_ServicesCacheValid, m_InitializerDone, local, retired,
                   last_op>>

\* line 284: host->Set("convenience_services", newServices)
HandlerStore ==
    /\ pc[Committer] = "store"
    /\ host_objects' =
           [host_objects EXCEPT
               ![local[Committer].item].convenience_services =
                   Some(local[Committer].newServices)]
    /\ pc' = [pc EXCEPT ![Committer] = NextPhase("store")]
    /\ UNCHANGED <<service_objects, m_ServicesCache, m_ServicesCacheValid,
                   m_InitializerDone, local, retired, last_op>>

\* the handler returns
HandlerReturn ==
    /\ pc[Committer] = "idle"
    /\ local[Committer] # IdleLocal
    /\ local' = [local EXCEPT ![Committer] = IdleLocal]
    /\ UNCHANGED <<host_objects, service_objects, m_ServicesCache,
                   m_ServicesCacheValid, m_InitializerDone, pc, retired,
                   last_op>>

(***************************************************************************)
(* Acknowledgement operations of two workers on the same host, statement   *)
(* by statement: lines 334-375 take no lock.                               *)
(***************************************************************************)

\* a worker that has not called anything
NoCall == [op |-> "none"]

ackFrame == <<last_ack_read, now, retired>>

\* line 336: Value value = Get("acknowledgement")
AckReadBegin(w) ==
    /\ pc[w] = "idle"
    /\ local[w] = NoCall
    /\ local' = [local EXCEPT ![w] =
                    [op |-> "read", value |-> acknowledgement, expiry |-> 0,
                     cleared |-> FALSE, returned |-> AcknowledgementNone]]
    /\ pc' = [pc EXCEPT ![w] = "test_type"]
    /\ UNCHANGED <<acknowledgement, acknowledgement_expiry, ackFrame>>

\* lines 338-344: an empty value and the type None are returned as None
AckTestType(w) ==
    /\ pc[w] = "test_type"
    /\ IF IsEmpty(local[w].value)
          \/ ValueOf(local[w].value) = AcknowledgementNone
          THEN pc' = [pc EXCEPT ![w] = "done"]
          ELSE pc' = [pc EXCEPT ![w] = "read_expiry"]
    /\ UNCHANGED <<acknowledgement, acknowledgement_expiry, local, ackFrame>>

\* line 345: double expiry = GetAcknowledgementExpiry()
AckReadExpiry(w) ==
    /\ pc[w] = "read_expiry"
    /\ local' = [local EXCEPT ![w].expiry = GetAcknowledgementExpiry]
    /\ pc' = [pc EXCEPT ![w] = "test_expiry"]
    /\ UNCHANGED <<acknowledgement, acknowledgement_expiry, ackFrame>>

\* line 347, and line 354 when the test fails
AckTestExpiry(w) ==
    /\ pc[w] = "test_expiry"
    /\ IF AckExpired(local[w].expiry, now)
          THEN /\ pc' = [pc EXCEPT ![w] = "clear_type"]
               /\ UNCHANGED local
          ELSE /\ pc' = [pc EXCEPT ![w] = "done"]
               /\ local' = [local EXCEPT
                               ![w].returned = ValueOf(local[w].value)]
    /\ UNCHANGED <<acknowledgement, acknowledgement_expiry, ackFrame>>

\* line 349: SetAcknowledgement(avalue), avalue being None
AckClearType(w) ==
    /\ pc[w] = "clear_type"
    /\ acknowledgement' = Some(AcknowledgementNone)
    /\ pc' = [pc EXCEPT ![w] = "clear_expiry"]
    /\ UNCHANGED <<acknowledgement_expiry, local, ackFrame>>

\* line 350: SetAcknowledgementExpiry(0), and line 354
AckClearExpiry(w) ==
    /\ pc[w] = "clear_expiry"
    /\ acknowledgement_expiry' = Some(0)
    /\ local' = [local EXCEPT ![w].cleared = TRUE]
    /\ pc' = [pc EXCEPT ![w] = "done"]
    /\ UNCHANGED <<acknowledgement, ackFrame>>

\* a worker acknowledges the problem: it is about to call
\* SetAcknowledgement(ack) and then SetAcknowledgementExpiry(timestamp)
AckSetBegin(w, ack, timestamp) ==
    /\ pc[w] = "idle"
    /\ local[w] = NoCall
    /\ local' = [local EXCEPT ![w] =
                    [op |-> "set", type |-> ack, expiry |-> timestamp]]
    /\ pc' = [pc EXCEPT ![w] = "set_type"]
    /\ UNCHANGED <<acknowledgement, acknowledgement_expiry, ackFrame>>

\* lines 357-360
AckSetType(w) ==
    /\ pc[w] = "set_type"
    /\ acknowledgement' = Some(local[w].type)
    /\ pc' = [pc EXCEPT ![w] = "set_expiry"]
    /\ UNCHANGED <<acknowledgement_expiry, local, ackFrame>>

\* lines 372-375
AckSetExpiry(w) ==
    /\ pc[w] = "set_expiry"
    /\ acknowledgement_expiry' = Some(local[w].expiry)
    /\ pc' = [pc EXCEPT ![w] = "done"]
    /\ UNCHANGED <<acknowledgement, local, ackFrame>>

(***************************************************************************)
(* UpdateFlappingStatus calls of two workers on the same entity, statement *)
(* by statement: lines 27-63 take no lock.                                 *)
(***************************************************************************)

flapWorkersFrame ==
    <<flapping_threshold_low, flapping_threshold_high, now, observations,
      flapping_before, enable_flapping, app_enable_flapping,
      last_flapping_read, retired>>

\* line 29: int flappingBuffer = GetFlappingBuffer()
FlapReadBuffer(w, stateChange) ==
    /\ pc[w] = "idle"
    /\ local[w] = NoCall
    /\ local' = [local EXCEPT ![w] =
                    [op |-> "update", stateChange |-> stateChange,
                     flappingBuffer |-> flapping_buffer, oldestIndex |-> 0,
                     flappingValue |-> FlapValue(0, 0), flapping |-> FALSE]]
    /\ pc' = [pc EXCEPT ![w] = "read_index"]
    /\ UNCHANGED <<flapping_buffer, flapping_index, flapping,
                   flapping_current, flapping_last_change, flapWorkersFrame>>

\* line 32 reads the index; lines 34-47 work on the locals
FlapReadIndex(w) ==
    /\ pc[w] = "read_index"
    /\ LET buf == NewBuffer(local[w].flappingBuffer, flapping_index,
                            local[w].stateChange)
           oldestIndex == NextIndex(flapping_index)
           s100 == StateChanges100(buf, oldestIndex)
       IN  \E ulp \in RoundingSigns(s100) :
             local' = [local EXCEPT
                          ![w].flappingBuffer = buf,
                          ![w].oldestIndex = oldestIndex,
                          ![w].flappingValue = FlapValue(s100, ulp)]
    /\ pc' = [pc EXCEPT ![w] = "read_flag"]
    /\ UNCHANGED <<flapping_buffer, flapping_index, flapping,
                   flapping_current, flapping_last_change, flapWorkersFrame>>

\* lines 49-54
FlapReadFlag(w) ==
    /\ pc[w] = "read_flag"
    /\ local' = [local EXCEPT ![w].flapping =
                    NewFlapping(flapping, local[w].flappingValue,
                                flapping_threshold_low,
                                flapping_threshold_high)]
    /\ pc' = [pc EXCEPT ![w] = "set_buffer"]
    /\ UNCHANGED <<flapping_buffer, flapping_index, flapping,
                   flapping_current, flapping_last_change, flapWorkersFrame>>

\* line 56
FlapSetBuffer(w) ==
    /\ pc[w] = "set_buffer"
    /\ flapping_buffer' = local[w].flappingBuffer
    /\ pc' = [pc EXCEPT ![w] = "set_index"]
    /\ UNCHANGED <<flapping_index, flapping, flapping_current,
                   flapping_last_change, local, flapWorkersFrame>>

\* line 57
FlapSetIndex(w) ==
    /\ pc[w] = "set_index"
    /\ flapping_index' = local[w].oldestIndex
    /\ pc' = [pc EXCEPT ![w] = "set_current"]
    /\ UNCHANGED <<flapping_buffer, flapping, flapping_current,
                   flapping_last_change, local, flapWorkersFrame>>

\* line 58
FlapSetCurrent(w) ==
    /\ pc[w] = "set_current"
    /\ flapping_current' = local[w].flappingValue
    /\ pc' = [pc EXCEPT ![w] = "set_flag"]
    /\ UNCHANGED <<flapping_buffer, flapping_index, flapping,
                   flapping_last_change, local, flapWorkersFrame>>

\* line 59
FlapSetFlag(w) ==
    /\ pc[w] = "set_flag"
    /\ flapping' = local[w].flapping
    /\ pc' = [pc EXCEPT ![w] = "last_change"]
    /\ UNCHANGED <<flapping_buffer, flapping_index, flapping_current,
                   flapping_last_change, local, flapWorkersFrame>>

\* line 61: if (flapping != GetFlapping())
FlapTestFlag(w) ==
    /\ pc[w] = "last_change"
    /\ pc' = [pc EXCEPT ![w] = IF local[w].flapping # flapping
                                   THEN "set_last_change" ELSE "done"]
    /\ UNCHANGED <<flapping_buffer, flapping_index, flapping,
                   flapping_current, flapping_last_change, local,
                   flapWorkersFrame>>

\* line 62: SetFlappingLastChange(Utility::GetTime())
FlapLastChange(w) ==
    /\ pc[w] = "set_last_change"
    /\ flapping_last_change' = now
    /\ pc' = [pc EXCEPT ![w] = "done"]
    /\ UNCHANGED <<flapping_buffer, flapping_index, flapping,
                   flapping_current, local, flapWorkersFrame>>

(***************************************************************************)
(* Dependencies and reachability                                           *)
(***************************************************************************)

StateOK == "StateOK"
StateWarning == "StateWarning"
StateCritical == "StateCritical"
ServiceStates == {StateOK, StateWarning, StateCritical}

StateTypeSoft == "StateTypeSoft"
StateTypeHard == "StateTypeHard"
StateTypes == {StateTypeSoft, StateTypeHard}

\* what a service can be in: with or without a check result, in either
\* state type, in any state
ServiceStatuses ==
    [last_check_result : BOOLEAN, state_type : StateTypes,
     state : ServiceStates]

\* a service that has not been checked
PendingStatus ==
    [last_check_result |-> FALSE, state_type |-> StateTypeSoft,
     state |-> StateOK]

\* a host that declares no dependency and no host check
NoDependencies ==
    [hostdependencies |-> Empty, servicedependencies |-> Empty,
     hostchecks |-> Empty]

\* the keys of a dependency map that may not be set
KeysIn(map) == IF IsEmpty(map) THEN {} ELSE ValueOf(map)

\* what a call yields: a value, or the exception it threw
Returned(value) == [threw |-> FALSE, value |-> value]
Threw == [threw |-> TRUE]

\* lines 69-72, and Service::Exists likewise
Exists(objects, name) == name \in DOMAIN objects

\* lines 74-82, and Service::GetByName likewise
GetByName(objects, name) ==
    IF ~Exists(objects, name) THEN Threw ELSE Returned(name)

\* a resolution that tries the bare name first
ResolveServiceBareFirst(services, hostName, name) ==
    IF Exists(services, name) THEN GetByName(services, name)
    ELSE GetByName(services, CombinedName(hostName, name))

\* lines 438-446
ResolveService(services, hostName, name) ==
    LET combinedName == CombinedName(hostName, name)
    IN  IF Exists(services, combinedName)
            THEN GetByName(services, combinedName)
            ELSE GetByName(services, name)

\* a parent-host set that keeps the host's own name
GetParentHostsWithSelf(hosts, deps, hostName) ==
    LET d == deps[hostName].hostdependencies
    IN  IF IsEmpty(d) THEN Returned({})
        ELSE IF \E key \in ValueOf(d) : GetByName(hosts, key).threw
            THEN Threw
        ELSE Returned(ValueOf(d))

\* lines 448-465
GetParentHosts(hosts, deps, hostName) ==
    LET d == deps[hostName].hostdependencies
    IN  IF IsEmpty(d) THEN Returned({})
        ELSE LET keys == {key \in ValueOf(d) : key # hostName}
             IN  IF \E key \in keys : GetByName(hosts, key).threw
                     THEN Threw
                     ELSE Returned({GetByName(hosts, key).value :
                                      key \in keys})

\* lines 477-491
GetParentServices(services, deps, hostName) ==
    LET d == deps[hostName].servicedependencies
    IN  IF IsEmpty(d) THEN Returned({})
        ELSE IF \E key \in ValueOf(d) :
                    ResolveService(services, hostName, key).threw
            THEN Threw
        ELSE Returned({ResolveService(services, hostName, key).value :
                         key \in ValueOf(d)})

\* Service::ResolveDependencies: each name of the host's checks resolved to
\* the name of the service it refers to, host-scoped name first
ResolveDependencies(services, hostName, names) ==
    {IF Exists(services, CombinedName(hostName, n))
        THEN CombinedName(hostName, n) ELSE n : n \in names}

\* lines 179-181: a host check in this state makes the host down
DownState(state) == state # StateOK /\ state # StateWarning

\* lines 169-186: the values the call can yield.  The loop stops at the
\* first check that is missing (it throws) or down (it returns false),
\* whichever the Dictionary holds first.
IsUp(services, status, deps, hostName) ==
    LET h == deps[hostName].hostchecks
    IN  IF IsEmpty(h) THEN {Returned(TRUE)}
        ELSE LET hostchecks ==
                     ResolveDependencies(services, hostName, ValueOf(h))
                 missing == {n \in hostchecks : ~Exists(services, n)}
                 down == {n \in hostchecks \ missing :
                            DownState(status[n].state)}
             IN  IF missing = {} /\ down = {} THEN {Returned(TRUE)}
                 ELSE {Threw : n \in missing}
                      \cup {Returned(FALSE) : n \in down}

\* a test that lets a pending service make the host unreachable
BlocksReachabilityIfPending(st) ==
    /\ st.state_type # StateTypeSoft
    /\ st.state # StateOK /\ st.state # StateWarning

\* lines 126-139: the parent service makes the host unreachable
BlocksReachability(st) ==
    /\ st.last_check_result
    /\ st.state_type # StateTypeSoft
    /\ st.state # StateOK /\ st.state # StateWarning

\* lines 123-151: the values the call can yield.  The parent hosts are a
\* std::set of pointers: the loop of lines 142-148 visits them in the order
\* of their addresses and stops at the first that is not up or throws.
IsReachable(hosts, services, status, deps, hostName) ==
    LET parentServices == GetParentServices(services, deps, hostName)
    IN  IF parentServices.threw THEN {Threw}
        ELSE IF \E svc \in parentServices.value :
                    BlocksReachability(status[svc])
            THEN {Returned(FALSE)}
        ELSE
            LET parentHosts == GetParentHosts(hosts, deps, hostName)
            IN  IF parentHosts.threw THEN {Threw}
                ELSE LET stops ==
                             UNION {IsUp(services, status, deps, p)
                                      \ {Returned(TRUE)} :
                                    p \in parentHosts.value}
                         passes ==
                             \A p \in parentHosts.value :
                                Returned(TRUE) \in
                                    IsUp(services, status, deps, p)
                     IN  stops \cup
                         (IF passes THEN {Returned(TRUE)} ELSE {})

\* a check result, or a restored state, of a registered service
SetServiceStatus(name, st) ==
    /\ name \in DOMAIN service_objects
    /\ service_status[name] # st
    /\ service_status' = [service_status EXCEPT ![name] = st]
    /\ last_op' = [op |-> "SetServiceStatus", service |-> name]
    /\ UNCHANGED <<host_objects, service_objects, m_ServicesCache,
                   m_ServicesCacheValid, m_InitializerDone, dependencies>>

\* a call of Host::IsReachable on a registered host
CallIsReachable(hostName) ==
    /\ hostName \in DOMAIN host_objects
    /\ \E result \in IsReachable(host_objects, service_objects,
                                  service_status, dependencies, hostName) :
         last_op' = [op |-> "IsReachable", host |-> hostName,
                     result |-> result]
    /\ UNCHANGED <<host_objects, service_objects, m_ServicesCache,
                   m_ServicesCacheValid, m_InitializerDone, depVars>>

\* a call of Host::GetParentHosts on a registered host
CallGetParentHosts(hostName) ==
    /\ hostName \in DOMAIN host_objects
    /\ last_op' = [op |-> "GetParentHosts", host |-> hostName,
                   result |-> GetParentHosts(host_objects, dependencies,
                                             hostName)]
    /\ UNCHANGED <<host_objects, service_objects, m_ServicesCache,
                   m_ServicesCacheValid, m_InitializerDone, depVars>>

\* a call of Host::GetParentServices on a registered host
CallGetParentServices(hostName) ==
    /\ hostName \in DOMAIN host_objects
    /\ last_op' = [op |-> "GetParentServices", host |-> hostName,
                   result |-> GetParentServices(service_objects, dependencies,
                                                hostName)]
    /\ UNCHANGED <<host_objects, service_objects, m_ServicesCache,
                   m_ServicesCacheValid, m_InitializerDone, depVars>>

\* a call of Host::ResolveService on a registered host
CallResolveService(hostName, name) ==
    /\ hostName \in DOMAIN host_objects
    /\ last_op' = [op |-> "ResolveService", host |-> hostName,
                   name |-> name,
                   result |-> ResolveService(service_objects, hostName, name)]
    /\ UNCHANGED <<host_objects, service_objects, m_ServicesCache,
                   m_ServicesCacheValid, m_InitializerDone, depVars>>

(***************************************************************************)
(* IsReachable and GetParentHosts, call by call and loop pass by loop      *)
(* pass: the worker keeps a stack of the calls it is in.                   *)
(***************************************************************************)

\* the calls a worker can be in, one inside the other
MaxDepth == 3

\* the worker that evaluates
Evaluator == "w1"

\* the host names in the order a Dictionary iterates its keys
SortedHostNames == <<"a", "a-b">>

\* lines 448-452: GetParentHosts is entered
GetParentHostsFrame(deps, hostName) ==
    [fn |-> "GetParentHosts", host |-> hostName,
     keys |-> SelectSeq(SortedHostNames,
                  LAMBDA k : k \in KeysIn(deps[hostName].hostdependencies)),
     parents |-> {}]

\* lines 477-481: GetParentServices is entered
GetParentServicesFrame(deps, hostName) ==
    [fn |-> "GetParentServices", host |-> hostName,
     keys |-> SelectSeq(SortedServiceKeys,
                  LAMBDA k : k \in KeysIn(deps[hostName].servicedependencies)),
     parents |-> {}]

\* lines 169-175: IsUp is entered and the host checks are resolved
IsUpFrame(services, deps, hostName) ==
    [fn |-> "IsUp", host |-> hostName,
     checks |-> IF IsEmpty(deps[hostName].hostchecks) THEN <<>>
                ELSE InNameOrder(ResolveDependencies(services, hostName,
                                     ValueOf(deps[hostName].hostchecks)))]

\* line 123: IsReachable is entered
IsReachableFrame(hostName) ==
    [fn |-> "IsReachable", host |-> hostName, at |-> "begin", todo |-> {}]

\* a loop over the parent hosts that asks each for its reachability
ParentCheckIsReachable(services, deps, parent) == IsReachableFrame(parent)

\* line 144: host->IsUp()
ParentCheck(services, deps, parent) == IsUpFrame(services, deps, parent)

Top(stack) == stack[Len(stack)]
Pop(stack) == SubSeq(stack, 1, Len(stack) - 1)
ReplaceTop(stack, frame) == Append(Pop(stack), frame)

\* the worker with the call on top of its stack returning a value, with an
\* exception leaving every call, with the top call going on, and with a
\* call made from the top call
Return(l, value) == [l EXCEPT !.stack = Pop(@), !.ret = Some(value)]
Throw(l) == [l EXCEPT !.stack = <<>>, !.ret = Some(Threw)]
GoOn(l, frame) == [l EXCEPT !.stack = ReplaceTop(@, frame), !.ret = Empty]
Call(l, frame, callee) ==
    [l EXCEPT !.stack = Append(ReplaceTop(@, frame), callee), !.ret = Empty]

reachFrame ==
    <<host_objects, service_objects, m_ServicesCache, m_ServicesCacheValid,
      m_InitializerDone, last_op, depVars, retired>>

\* a worker calls IsReachable or GetParentHosts on a registered host
StartCall(fn, hostName) ==
    /\ pc[Evaluator] = "idle"
    /\ hostName \in DOMAIN host_objects
    /\ local' = [local EXCEPT ![Evaluator] =
           [op |-> fn, host |-> hostName,
            stack |-> <<IF fn = "IsReachable" THEN IsReachableFrame(hostName)
                        ELSE GetParentHostsFrame(dependencies, hostName)>>,
            ret |-> Empty]]
    /\ pc' = [pc EXCEPT ![Evaluator] = "running"]
    /\ UNCHANGED reachFrame

\* lines 456-464: one pass of the loop, or the return
StepGetParentHosts ==
    /\ pc[Evaluator] = "running"
    /\ local[Evaluator].stack # <<>>
    /\ Top(local[Evaluator].stack).fn = "GetParentHosts"
    /\ LET l == local[Evaluator]
           f == Top(l.stack)
       IN  local' = [local EXCEPT ![Evaluator] =
               IF f.keys = <<>> THEN Return(l, Returned(f.parents))
               ELSE IF Head(f.keys) = f.host
                   THEN GoOn(l, [f EXCEPT !.keys = Tail(@)])
               ELSE IF GetByName(host_objects, Head(f.keys)).threw
                   THEN Throw(l)
               ELSE GoOn(l, [f EXCEPT !.keys = Tail(@),
                                      !.parents = @ \cup {Head(f.keys)}])]
    /\ UNCHANGED <<pc, reachFrame>>

\* lines 485-490: one pass of the loop, or the return
StepGetParentServices ==
    /\ pc[Evaluator] = "running"
    /\ local[Evaluator].stack # <<>>
    /\ Top(local[Evaluator].stack).fn = "GetParentServices"
    /\ LET l == local[Evaluator]
           f == Top(l.stack)
           service == ResolveService(service_objects, f.host, Head(f.keys))
       IN  local' = [local EXCEPT ![Evaluator] =
               IF f.keys = <<>> THEN Return(l, Returned(f.parents))
               ELSE IF service.threw THEN Throw(l)
               ELSE GoOn(l, [f EXCEPT !.keys = Tail(@),
                                      !.parents = @ \cup {service.value}])]
    /\ UNCHANGED <<pc, reachFrame>>

\* lines 176-185: one pass of the loop, or the return
StepIsUp ==
    /\ pc[Evaluator] = "running"
    /\ local[Evaluator].stack # <<>>
    /\ Top(local[Evaluator].stack).fn = "IsUp"
    /\ LET l == local[Evaluator]
           f == Top(l.stack)
       IN  local' = [local EXCEPT ![Evaluator] =
               IF f.checks = <<>> THEN Return(l, Returned(TRUE))
               ELSE IF GetByName(service_objects, Head(f.checks)).threw
                   THEN Throw(l)
               ELSE IF DownState(service_status[Head(f.checks)].state)
                   THEN Return(l, Returned(FALSE))
               ELSE GoOn(l, [f EXCEPT !.checks = Tail(@)])]
    /\ UNCHANGED <<pc, reachFrame>>

\* lines 125-150: the next statement of IsReachable
StepIsReachable ==
    /\ pc[Evaluator] = "running"
    /\ local[Evaluator].stack # <<>>
    /\ Top(local[Evaluator].stack).fn = "IsReachable"
    /\ LET l == local[Evaluator]
           f == Top(l.stack)
       IN  CASE f.at = "begin" ->
                  \* line 125: GetParentServices()
                  /\ Len(l.stack) < MaxDepth
                  /\ local' = [local EXCEPT ![Evaluator] =
                         Call(l, [f EXCEPT !.at = "services"],
                              GetParentServicesFrame(dependencies, f.host))]
             [] f.at = "services" /\ ~IsEmpty(l.ret) ->
                  local' = [local EXCEPT ![Evaluator] =
                      GoOn(l, [f EXCEPT !.at = "services",
                                        !.todo = ValueOf(l.ret).value])]
             [] f.at = "services" /\ IsEmpty(l.ret) /\ f.todo # {} ->
                  \* lines 126-139: one pass of the loop
                  \E svc \in f.todo :
                     local' = [local EXCEPT ![Evaluator] =
                         IF BlocksReachability(service_status[svc])
                             THEN Return(l, Returned(FALSE))
                             ELSE GoOn(l, [f EXCEPT !.todo = @ \ {svc}])]
             [] f.at = "services" /\ IsEmpty(l.ret) /\ f.todo = {} ->
                  \* line 142: GetParentHosts()
                  /\ Len(l.stack) < MaxDepth
                  /\ local' = [local EXCEPT ![Evaluator] =
                         Call(l, [f EXCEPT !.at = "hosts"],
                              GetParentHostsFrame(dependencies, f.host))]
             [] f.at = "hosts" /\ ~IsEmpty(l.ret) ->
                  local' = [local EXCEPT ![Evaluator] =
                      GoOn(l, [f EXCEPT !.at = "hosts_loop",
                                        !.todo = ValueOf(l.ret).value])]
             [] f.at = "hosts_loop" /\ ~IsEmpty(l.ret) ->
                  \* lines 144-147: the parent host has answered
                  local' = [local EXCEPT ![Evaluator] =
                      IF ValueOf(l.ret).value THEN GoOn(l, f)
                      ELSE Return(l, Returned(FALSE))]
             [] f.at = "hosts_loop" /\ IsEmpty(l.ret) /\ f.todo # {} ->
                  \* line 144: the next parent host is asked
                  /\ Len(l.stack) < MaxDepth
                  /\ \E parent \in f.todo :
                        local' = [local EXCEPT ![Evaluator] =
                            Call(l, [f EXCEPT !.todo = @ \ {parent}],
                                 ParentCheck(service_objects, dependencies,
                                             parent))]
             [] f.at = "hosts_loop" /\ IsEmpty(l.ret) /\ f.todo = {} ->
                  \* line 150
                  local' = [local EXCEPT ![Evaluator] =
                      Return(l, Returned(TRUE))]
             [] OTHER -> FALSE
    /\ UNCHANGED <<pc, reachFrame>>

\* the outermost call has returned or thrown
FinishCall ==
    /\ pc[Evaluator] = "running"
    /\ local[Evaluator].stack = <<>>
    /\ pc' = [pc EXCEPT ![Evaluator] = "done"]
    /\ UNCHANGED <<local, reachFrame>>

\* the caller goes on
ForgetCall ==
    /\ pc[Evaluator] = "done"
    /\ pc' = [pc EXCEPT ![Evaluator] = "idle"]
    /\ local' = [local EXCEPT ![Evaluator] = NoCall]
    /\ UNCHANGED reachFrame

\* a service that has been checked and found down for good
DownStatus ==
    [last_check_result |-> TRUE, state_type |-> StateTypeHard,
     state |-> StateCritical]

\* no dependency is declared and no service has been checked
DepIdle ==
    /\ dependencies = [h \in HostNames |-> NoDependencies]
    /\ service_status = [n \in ServiceNames |-> PendingStatus]

\* the hosts of the configurations of the dependency model
DependencyHostSets == {{"a", "a-b"}, {"a"}}

\* the registered services of those configurations, each with its host
DependencyServiceSets == {{}, {"c"}, {"a-c", "c"}, {"a-b-c"}, {"c", "a-b-c"}}
DependencyServiceHost == "a-b-c" :> "a-b" @@ "a-c" :> "a" @@ "c" :> "a"

\* the dependency maps and host checks of those configurations
DependencyMaps ==
    {deps \in [HostNames ->
                 [hostdependencies : {Empty} \cup {Some(k) : k \in
                                          (SUBSET HostNames) \ {{}}},
                  servicedependencies : {Empty, Some({"c"})},
                  hostchecks : {Empty, Some({"c"})}]] :
        /\ deps["a"].hostchecks = Empty
        /\ deps["a-b"].servicedependencies = Empty
        /\ deps["a-b"].hostdependencies \in {Empty, Some({"a"})}}

\* a committed configuration: hosts and services are registered, the
\* cache has not been asked for since
InitDependencies ==
    /\ FlapIdle
    /\ AckIdle
    /\ WorkersIdle
    /\ now = 1
    /\ \E hosts \in DependencyHostSets, services \in DependencyServiceSets :
         /\ host_objects = [h \in hosts |-> NewHost(Empty)]
         /\ service_objects =
                [n \in services |-> [host_name |-> DependencyServiceHost[n]]]
         /\ \E deps \in DependencyMaps :
              /\ \A h \in HostNames \ hosts : deps[h] = NoDependencies
              /\ dependencies = deps
    /\ service_status = [n \in ServiceNames |-> PendingStatus]
    /\ m_ServicesCache = EmptyCache
    /\ m_ServicesCacheValid = (DOMAIN service_objects = {})
    /\ m_InitializerDone = TRUE
    /\ last_op = [op |-> "none"]

NextDependencies ==
    \/ \E name \in ServiceNames, st \in ServiceStatuses :
         SetServiceStatus(name, st) /\ UNCHANGED <<flapVars, ackVars, workerVars>>
    \/ \E name \in HostNames :
         CallIsReachable(name) /\ UNCHANGED <<flapVars, ackVars, workerVars>>
    \/ \E name \in HostNames :
         CallGetParentHosts(name) /\ UNCHANGED <<flapVars, ackVars, workerVars>>
    \/ \E name \in HostNames :
         CallGetParentServices(name) /\ UNCHANGED <<flapVars, ackVars, workerVars>>
    \/ \E hostName \in HostNames, name \in ServiceKeys :
         CallResolveService(hostName, name)
             /\ UNCHANGED <<flapVars, ackVars, workerVars>>

SpecDependencies == InitDependencies /\ [][NextDependencies]_vars

\* a committed configuration, cyclic host dependencies among them, each
\* registered service not yet checked or down; the worker has made no call
InitEvaluation ==
    /\ FlapIdle
    /\ AckIdle
    /\ now = 1
    /\ pc = [w \in Workers |-> "idle"]
    /\ local = [w \in Workers |-> NoCall]
    /\ retired = {}
    /\ \E hosts \in DependencyHostSets, services \in DependencyServiceSets :
         /\ host_objects = [h \in hosts |-> NewHost(Empty)]
         /\ service_objects =
                [n \in services |-> [host_name |-> DependencyServiceHost[n]]]
         /\ \E deps \in DependencyMaps :
              /\ \A h \in HostNames \ hosts : deps[h] = NoDependencies
              /\ dependencies = deps
         /\ \E status \in [ServiceNames -> {PendingStatus, DownStatus}] :
              /\ \A n \in ServiceNames \ services :
                    status[n] = PendingStatus
              /\ service_status = status
    /\ m_ServicesCache = EmptyCache
    /\ m_ServicesCacheValid = (DOMAIN service_objects = {})
    /\ m_InitializerDone = TRUE
    /\ last_op = [op |-> "none"]

evaluationRest == <<flapVars, ackVars>>

EvaluationStep ==
    /\ \/ StepGetParentHosts
       \/ StepGetParentServices
       \/ StepIsUp
       \/ StepIsReachable
       \/ FinishCall
    /\ UNCHANGED evaluationRest

NextEvaluation ==
    \/ \E fn \in {"IsReachable", "GetParentHosts"}, hostName \in HostNames :
         StartCall(fn, hostName) /\ UNCHANGED evaluationRest
    \/ StepGetParentHosts /\ UNCHANGED evaluationRest
    \/ StepGetParentServices /\ UNCHANGED evaluationRest
    \/ StepIsUp /\ UNCHANGED evaluationRest
    \/ StepIsReachable /\ UNCHANGED evaluationRest
    \/ FinishCall /\ UNCHANGED evaluationRest
    \/ ForgetCall /\ UNCHANGED evaluationRest

\* a worker that is in a call goes on running it
SpecEvaluation ==
    InitEvaluation /\ [][NextEvaluation]_vars /\ WF_vars(EvaluationStep)

InitFlap ==
    /\ InitFlapping
    /\ AckIdle
    /\ CfgIdle
    /\ DepIdle
    /\ WorkersIdle

NextFlap == \E stateChange \in BOOLEAN : UpdateFlappingStatus(stateChange)

SpecFlap == InitFlap /\ [][NextFlap]_vars

NextFlapDense ==
    \E stateChange \in BOOLEAN : UpdateFlappingStatusDense(stateChange)

SpecFlapDense == InitFlap /\ [][NextFlapDense]_vars

\* the entity before any call, with the switches as configured
InitIsFlapping ==
    /\ flapping_buffer = 0
    /\ flapping_index = 0
    /\ flapping = FALSE
    /\ flapping_current = FlapValue(0, 0)
    /\ flapping_last_change = 0
    /\ \E p \in ThresholdPairs :
         /\ flapping_threshold_low = p[1]
         /\ flapping_threshold_high = p[2]
    /\ now = 1
    /\ observations = <<>>
    /\ flapping_before = FALSE
    /\ enable_flapping \in BOOLEAN
    /\ app_enable_flapping \in BOOLEAN
    /\ last_flapping_read = NoFlappingRead
    /\ AckIdle
    /\ CfgIdle
    /\ DepIdle
    /\ WorkersIdle

NextIsFlapping ==
    \/ \E stateChange \in BOOLEAN : UpdateFlappingStatusEarly(stateChange)
    \/ IsFlapping
    \/ \E value \in BOOLEAN : SetEnableFlapping(value)
    \/ \E value \in BOOLEAN : SetAppEnableFlapping(value)

SpecIsFlapping == InitIsFlapping /\ [][NextIsFlapping]_vars

InitAck ==
    /\ FlapIdle
    /\ AckIdle
    /\ CfgIdle
    /\ DepIdle
    /\ WorkersIdle
    /\ now = 1

NextAck ==
    \/ \E ack \in AcknowledgementTypes :
         SetAcknowledgement(ack) /\ UNCHANGED <<flapVarsNoClock, cfgVars, depVars, workerVars>>
    \/ \E timestamp \in 0..MaxTime :
         SetAcknowledgementExpiry(timestamp) /\ UNCHANGED <<flapVarsNoClock, cfgVars, depVars, workerVars>>
    \/ GetAcknowledgement /\ UNCHANGED <<flapVarsNoClock, cfgVars, depVars, workerVars>>
    \/ AdvanceTime /\ UNCHANGED <<flapVarsNoClock, cfgVars, depVars, workerVars>>

SpecAck == InitAck /\ [][NextAck]_vars

InitConfig ==
    /\ FlapIdle
    /\ AckIdle
    /\ CfgIdle
    /\ DepIdle
    /\ WorkersIdle
    /\ now = 1

NextConfig ==
    \/ \E name \in HostNames, services \in ServiceDeclarations :
         CommitHost(name, services) /\ UNCHANGED <<flapVars, ackVars, depVars, workerVars>>
    \/ \E name \in HostNames :
         CommitAbstractHost(name) /\ UNCHANGED <<flapVars, ackVars, depVars, workerVars>>
    \/ \E name \in StandaloneServiceNames, hostName \in HostNames :
         CommitService(name, hostName) /\ UNCHANGED <<flapVars, ackVars, depVars, workerVars>>
    \/ \E name \in ServiceNames :
         RemoveService(name) /\ UNCHANGED <<flapVars, ackVars, depVars, workerVars>>
    \/ \E name \in HostNames :
         RemoveHost(name) /\ UNCHANGED <<flapVars, ackVars, depVars, workerVars>>
    \/ \E name \in HostNames :
         RemoveAbstractHost(name) /\ UNCHANGED <<flapVars, ackVars, depVars, workerVars>>
    \/ CallInvalidateServicesCache /\ UNCHANGED <<flapVars, ackVars, depVars, workerVars>>
    \/ \E name \in HostNames :
         GetServices(name) /\ UNCHANGED <<flapVars, ackVars, depVars, workerVars>>

SpecConfig == InitConfig /\ [][NextConfig]_vars

\* both hosts have been committed, with no inline service
InitCache ==
    /\ FlapIdle
    /\ AckIdle
    /\ DepIdle
    /\ WorkersIdle
    /\ now = 1
    /\ host_objects = [h \in HostNames |-> NewHost(Empty)]
    /\ service_objects = [n \in {} |-> [host_name |-> ""]]
    /\ m_ServicesCache = EmptyCache
    /\ m_ServicesCacheValid = TRUE
    /\ m_InitializerDone = TRUE
    /\ last_op = [op |-> "none"]

cacheFrame ==
    <<flapVars, ackVars, depVars, host_objects, m_InitializerDone, last_op>>

NextCache ==
    \/ \E w \in Workers, name \in WorkerServiceNames :
         \E hostName \in WorkerServiceHosts(name) :
         WorkerRegister(w, name, hostName) /\ UNCHANGED cacheFrame
    \/ \E w \in Workers, name \in WorkerServiceNames :
         WorkerUnregister(w, name) /\ UNCHANGED cacheFrame
    \/ \E w \in Workers : WorkerCallInvalidate(w) /\ UNCHANGED cacheFrame
    \/ \E w \in Workers : WorkerInvalidateFlag(w) /\ UNCHANGED cacheFrame
    \/ \E w \in Workers : WorkerInvalidateClear(w) /\ UNCHANGED cacheFrame
    \/ \E w \in Workers, hostName \in HostNames :
         WorkerGetServices(w, hostName) /\ UNCHANGED cacheFrame
    \/ \E w \in Workers : WorkerValidateCheck(w) /\ UNCHANGED cacheFrame
    \/ \E w \in Workers : WorkerRebuildClear(w) /\ UNCHANGED cacheFrame
    \/ \E w \in Workers : WorkerRebuildBegin(w) /\ UNCHANGED cacheFrame
    \/ \E w \in Workers : WorkerRebuildPush(w) /\ UNCHANGED cacheFrame
    \/ \E w \in Workers : WorkerRebuildLoopEnd(w) /\ UNCHANGED cacheFrame
    \/ \E w \in Workers : WorkerRebuildDone(w) /\ UNCHANGED cacheFrame
    \/ \E w \in Workers : WorkerValidateReturn(w) /\ UNCHANGED cacheFrame
    \/ \E w \in Workers : WorkerRead(w) /\ UNCHANGED cacheFrame
    \/ \E w \in Workers : WorkerReadElement(w) /\ UNCHANGED cacheFrame
    \/ \E w \in Workers : WorkerReadDone(w) /\ UNCHANGED cacheFrame
    \/ \E w \in Workers : WorkerFault(w) /\ UNCHANGED cacheFrame
    \/ \E w \in Workers : WorkerReturn(w) /\ UNCHANGED cacheFrame

SpecCache == InitCache /\ [][NextCache]_vars

\* a host with an acknowledgement and an expiry set, at some time; each
\* worker is about to make one call
InitAckWorkers ==
    /\ FlapIdle
    /\ CfgIdle
    /\ DepIdle
    /\ pc = [w \in Workers |-> "idle"]
    /\ local = [w \in Workers |-> NoCall]
    /\ retired = {}
    /\ acknowledgement \in
           {Some(AcknowledgementNormal), Some(AcknowledgementSticky)}
    /\ acknowledgement_expiry \in {Some(t) : t \in 0..MaxTime}
    /\ now \in 1..MaxTime
    /\ last_ack_read = NoAckRead

ackWorkersFrame == <<flapVarsNoClock, cfgVars, depVars>>

NextAckWorkers ==
    \/ \E w \in Workers : AckReadBegin(w) /\ UNCHANGED ackWorkersFrame
    \/ \E w \in Workers : AckTestType(w) /\ UNCHANGED ackWorkersFrame
    \/ \E w \in Workers : AckReadExpiry(w) /\ UNCHANGED ackWorkersFrame
    \/ \E w \in Workers : AckTestExpiry(w) /\ UNCHANGED ackWorkersFrame
    \/ \E w \in Workers : AckClearType(w) /\ UNCHANGED ackWorkersFrame
    \/ \E w \in Workers : AckClearExpiry(w) /\ UNCHANGED ackWorkersFrame
    \/ \E w \in Workers, ack \in {AcknowledgementNormal, AcknowledgementSticky},
          timestamp \in 0..MaxTime :
         AckSetBegin(w, ack, timestamp) /\ UNCHANGED ackWorkersFrame
    \/ \E w \in Workers : AckSetType(w) /\ UNCHANGED ackWorkersFrame
    \/ \E w \in Workers : AckSetExpiry(w) /\ UNCHANGED ackWorkersFrame

SpecAckWorkers == InitAckWorkers /\ [][NextAckWorkers]_vars

\* a fresh entity; each worker is about to make one call
InitFlapWorkers ==
    /\ InitFlapping
    /\ AckIdle
    /\ CfgIdle
    /\ DepIdle
    /\ pc = [w \in Workers |-> "idle"]
    /\ local = [w \in Workers |-> NoCall]
    /\ retired = {}

flapWorkersRest == <<ackVars, cfgVars, depVars>>

NextFlapWorkers ==
    \/ \E w \in Workers, stateChange \in BOOLEAN :
         FlapReadBuffer(w, stateChange) /\ UNCHANGED flapWorkersRest
    \/ \E w \in Workers : FlapReadIndex(w) /\ UNCHANGED flapWorkersRest
    \/ \E w \in Workers : FlapReadFlag(w) /\ UNCHANGED flapWorkersRest
    \/ \E w \in Workers : FlapSetBuffer(w) /\ UNCHANGED flapWorkersRest
    \/ \E w \in Workers : FlapSetIndex(w) /\ UNCHANGED flapWorkersRest
    \/ \E w \in Workers : FlapSetCurrent(w) /\ UNCHANGED flapWorkersRest
    \/ \E w \in Workers : FlapSetFlag(w) /\ UNCHANGED flapWorkersRest
    \/ \E w \in Workers : FlapTestFlag(w) /\ UNCHANGED flapWorkersRest
    \/ \E w \in Workers : FlapLastChange(w) /\ UNCHANGED flapWorkersRest

SpecFlapWorkers == InitFlapWorkers /\ [][NextFlapWorkers]_vars

InitRecommit ==
    /\ FlapIdle
    /\ AckIdle
    /\ CfgIdle
    /\ DepIdle
    /\ WorkersIdle
    /\ now = 1

NextRecommit ==
    \/ \E name \in HostNames, services \in ServiceDeclarations :
         BeginCommitHost(name, services)
             /\ UNCHANGED <<flapVars, ackVars, depVars>>
    \/ HandlerCommit /\ UNCHANGED <<flapVars, ackVars, depVars>>
    \/ HandlerUnregister /\ UNCHANGED <<flapVars, ackVars, depVars>>
    \/ HandlerLoopDone /\ UNCHANGED <<flapVars, ackVars, depVars>>
    \/ HandlerStore /\ UNCHANGED <<flapVars, ackVars, depVars>>
    \/ HandlerReturn /\ UNCHANGED <<flapVars, ackVars, depVars>>

SpecRecommit == InitRecommit /\ [][NextRecommit]_vars

(***************************************************************************)
(* Claims on flapping detection (checked under SpecFlap).                  *)
(***************************************************************************)

\* C1: after every UpdateFlappingStatus call, the stored flag is true
\* exactly when the newly computed percentage is strictly greater than the
\* applicable threshold: the low one if the flag was true before the call,
\* the high one if it was false.  A percentage equal to the applicable
\* threshold leaves the flag false.
C1_Hysteresis ==
    Len(observations) > 0 =>
        LET applicable == IF flapping_before THEN flapping_threshold_low
                          ELSE flapping_threshold_high
        IN  /\ flapping = ValueGreater(flapping_current, applicable)
            /\ ValueEquals(flapping_current, applicable) => ~flapping

\* C1 witness: the flag was true, the new percentage equals the low
\* threshold exactly, and the call turned the flag off.
C1_Witness ==
    /\ Len(observations) > 0
    /\ flapping_before
    /\ ValueEquals(flapping_current, flapping_threshold_low)
    /\ ~flapping

\* C2: after n calls from index 0 and an empty buffer, the index is
\* n mod 20 and within 0..19, the buffer is within 0..2^20-1, a slot never
\* written is 0, and slot (index - 1 - a) mod 20 holds the observation made
\* a calls before the latest, for every a < min(n, 20): from n = 20 on the
\* 20 bits are the 20 most recent observations.
C2_BufferIsLast20 ==
    LET n == Len(observations)
    IN  /\ flapping_index = n % 20
        /\ flapping_index \in 0..19
        /\ flapping_buffer \in 0..(2^20 - 1)
        /\ \A a \in 0..19 :
              LET slot == (flapping_index + 19 - a) % 20
              IN  BitTest(flapping_buffer, slot) =
                    (IF a < n THEN observations[n - a] ELSE FALSE)

\* C2 witness: more than 20 calls were made, the index has wrapped, and
\* the observation of the first call, a state change, has been overwritten.
C2_Witness ==
    /\ Len(observations) > 20
    /\ observations[1]
    /\ flapping_index = 1
    /\ ~BitTest(flapping_buffer, 0)
    /\ flapping_buffer # 0

(***************************************************************************)
(* Claims on acknowledgements (checked under SpecAck).                     *)
(***************************************************************************)

\* C4: a GetAcknowledgement call returns None and leaves the stored type
\* None and the stored expiry 0 when the stored type was not None and the
\* stored expiry was nonzero and earlier than the time of the call; in every
\* other case it returns the stored type (None when no type is stored) and
\* leaves both stored values as they were.  It never returns an active
\* type when the nonzero expiry has passed.
C4_AckExpiry ==
    last_ack_read.called =>
        LET storedType == IF IsEmpty(last_ack_read.stored_type)
                          THEN AcknowledgementNone
                          ELSE ValueOf(last_ack_read.stored_type)
            storedExpiry == IF IsEmpty(last_ack_read.stored_expiry) THEN 0
                            ELSE ValueOf(last_ack_read.stored_expiry)
            passed == storedExpiry # 0 /\ storedExpiry < last_ack_read.at
        IN  /\ (storedType # AcknowledgementNone /\ passed) =>
                  /\ last_ack_read.returned = AcknowledgementNone
                  /\ acknowledgement = Some(AcknowledgementNone)
                  /\ acknowledgement_expiry = Some(0)
            /\ ~(storedType # AcknowledgementNone /\ passed) =>
                  /\ last_ack_read.returned = storedType
                  /\ acknowledgement = last_ack_read.stored_type
                  /\ acknowledgement_expiry = last_ack_read.stored_expiry
            /\ last_ack_read.returned # AcknowledgementNone => ~passed

\* C4 witness: a sticky acknowledgement whose expiry has passed was read:
\* the read returned None and cleared the type and the expiry.
C4_Witness ==
    /\ last_ack_read.called
    /\ last_ack_read.stored_type = Some(AcknowledgementSticky)
    /\ ~IsEmpty(last_ack_read.stored_expiry)
    /\ ValueOf(last_ack_read.stored_expiry) # 0
    /\ ValueOf(last_ack_read.stored_expiry) < last_ack_read.at
    /\ last_ack_read.returned = AcknowledgementNone
    /\ acknowledgement = Some(AcknowledgementNone)
    /\ acknowledgement_expiry = Some(0)

(***************************************************************************)
(* Claims on the services cache and the configuration handlers (checked    *)
(* under SpecConfig).                                                      *)
(***************************************************************************)

\* the registered services that declare the host
ServicesOfHost(hostName) ==
    {n \in DOMAIN service_objects : service_objects[n].host_name = hostName}

\* C3: whatever services were registered and unregistered before, each
\* change followed by InvalidateServicesCache, GetServices on host h returns
\* exactly the registered services whose host is h, whether this call
\* rebuilt the cache or an earlier one did.
C3_GetServicesExact ==
    last_op.op = "GetServices" =>
        last_op.services = ServicesOfHost(last_op.host)

\* C3 witness: GetServices returned a service of the host while a service of
\* the other host is registered and a synthesized service of the host has
\* been unregistered; neither of the two is in the result.
C3_Witness ==
    /\ last_op.op = "GetServices"
    /\ last_op.services # {}
    /\ \E n \in DOMAIN service_objects :
          service_objects[n].host_name # last_op.host
    /\ ~IsEmpty(host_objects[last_op.host].convenience_services)
    /\ \E n \in ValueOf(host_objects[last_op.host].convenience_services) :
          n \notin DOMAIN service_objects /\ n \notin last_op.services

\* C5: after ObjectCommittedHandler has run to its end for host h, also for
\* a host committed before, convenience_services of h is exactly the set of
\* names "<h>-<key>" for the keys of the declaration just committed, each
\* of them is registered, and each service of the previous set that is not
\* in the new one is unregistered.
C5_Regeneration ==
    (last_op.op = "CommitHost" /\ ~last_op.threw) =>
        LET h == last_op.host
            declared == host_objects[h].services
            keys == IF IsEmpty(declared) THEN {}
                    ELSE DOMAIN ValueOf(declared)
            new == {h \o "-" \o k : k \in keys}
            old == IF IsEmpty(last_op.old) THEN {} ELSE ValueOf(last_op.old)
        IN  /\ host_objects[h].convenience_services = Some(new)
            /\ \A n \in new : n \in DOMAIN service_objects
            /\ \A n \in old \ new : n \notin DOMAIN service_objects

\* C5 witness: a host was committed a second time with a set that drops a
\* service of the first set, keeps one and adds none but those declared.
C5_Witness ==
    /\ last_op.op = "CommitHost"
    /\ ~last_op.threw
    /\ ~IsEmpty(last_op.old)
    /\ LET new == ValueOf(host_objects[last_op.host].convenience_services)
           old == ValueOf(last_op.old)
       IN  /\ old \ new # {}
           /\ old \cap new # {}
           /\ \A n \in old \ new : n \notin DOMAIN service_objects

\* C9: after ObjectRemovedHandler has run for a removed host, none of the
\* services its convenience_services named is registered.
C9_RemovalUnregistersAll ==
    last_op.op = "RemoveHost" =>
        \A n \in (IF IsEmpty(last_op.services) THEN {}
                  ELSE ValueOf(last_op.services)) :
            n \notin DOMAIN service_objects

\* C9 witness: a host with two synthesized services was removed and
\* neither service is registered any more.
C9_Witness ==
    /\ last_op.op = "RemoveHost"
    /\ ~IsEmpty(last_op.services)
    /\ Cardinality(ValueOf(last_op.services)) = 2
    /\ ValueOf(last_op.services) \cap DOMAIN service_objects = {}

(***************************************************************************)
(* Claims on dependencies and reachability (checked under                  *)
(* SpecDependencies).                                                      *)
(***************************************************************************)

\* the keys of a dependency map, none if the attribute is not set
KeysOf(map) == IF IsEmpty(map) THEN {} ELSE ValueOf(map)

\* the registered service a name refers to on a host, if any: the one named
\* "<host>-<name>" if it is registered, else the one named <name>
ReferredServices(hostName, name) ==
    IF (hostName \o "-" \o name) \in DOMAIN service_objects
        THEN {hostName \o "-" \o name}
        ELSE {name} \cap DOMAIN service_objects

\* C6: whenever IsReachable returns, it returns false exactly when some
\* parent service has a check result, is in the hard state type and is in a
\* state other than OK and Warning, or some parent host is not up (one of
\* its host checks is in a state other than OK and Warning).  A pending
\* parent service, and one in the soft state type, does not count.
C6_Reachability ==
    (last_op.op = "IsReachable" /\ ~last_op.result.threw) =>
        LET h == last_op.host
            parentServices ==
                UNION {ReferredServices(h, key) :
                         key \in KeysOf(dependencies[h].servicedependencies)}
            parentHosts ==
                (KeysOf(dependencies[h].hostdependencies) \ {h})
                    \cap DOMAIN host_objects
            hostChecks(p) ==
                UNION {ReferredServices(p, n) :
                         n \in KeysOf(dependencies[p].hostchecks)}
            hardProblem(svc) ==
                /\ service_status[svc].last_check_result
                /\ service_status[svc].state_type = StateTypeHard
                /\ service_status[svc].state \notin {StateOK, StateWarning}
            notUp(p) ==
                \E svc \in hostChecks(p) :
                    service_status[svc].state \notin {StateOK, StateWarning}
        IN  (last_op.result.value = FALSE) <=>
                \/ \E svc \in parentServices : hardProblem(svc)
                \/ \E p \in parentHosts : notUp(p)

\* C6 witness: IsReachable returned true for a host whose parent service
\* has a check result and is CRITICAL, but in the soft state type.
C6_Witness ==
    /\ last_op.op = "IsReachable"
    /\ last_op.result = Returned(TRUE)
    /\ \E key \in KeysOf(dependencies[last_op.host].servicedependencies) :
         \E svc \in ReferredServices(last_op.host, key) :
            /\ service_status[svc].last_check_result
            /\ service_status[svc].state = StateCritical
            /\ service_status[svc].state_type = StateTypeSoft

\* C10: the set GetParentHosts returns never holds the host itself; when
\* every key of the host-dependency map other than the host's own name is a
\* registered host the call returns, and returns exactly those hosts; so a
\* host that declares only itself gets the empty set, without an error.
C10_NoSelfParent ==
    last_op.op = "GetParentHosts" =>
        LET h == last_op.host
            others == KeysOf(dependencies[h].hostdependencies) \ {h}
        IN  /\ ~last_op.result.threw => h \notin last_op.result.value
            /\ others \subseteq DOMAIN host_objects =>
                  last_op.result = Returned(others)

\* C10 witness: the host-dependency map of the host names the host only,
\* and GetParentHosts returned the empty set.
C10_Witness ==
    /\ last_op.op = "GetParentHosts"
    /\ dependencies[last_op.host].hostdependencies = Some({last_op.host})
    /\ last_op.result = Returned({})

\* the services the cache holds under a host name
CachedServices(hostName) ==
    LET entry == CacheEntry(m_ServicesCache, hostName)[hostName]
    IN  {entry[i] : i \in DOMAIN entry}

\* C7: with rebuilds and invalidations of the cache running at the same
\* time as readers, a GetServices call on a host returns every service of
\* that host which stayed registered from the start of the call to its end:
\* those are in the cache before the rebuild and in the cache after it, so
\* a result without one of them is an emptied or half-filled cache.
C7_ReadersSeeWholeCache ==
    \A w \in Workers :
        pc[w] = "returned" => local[w].stable \subseteq local[w].services

\* C8: under every interleaving of registry changes, invalidations and
\* rebuilds, whenever the cache is marked valid while no rebuild, no
\* invalidation and no invalidation hook of a registry change is under way,
\* the cache holds under each host name exactly the registered services of
\* that host: no invalidation is lost.
C8_InvalidationNeverLost ==
    (/\ m_ServicesCacheValid
     /\ \A w \in Workers :
           pc[w] \in {"idle", "validate", "validate_return", "read",
                      "read_loop", "returned"})
        => /\ m_ServicesCache # DamagedMap
           /\ \A h \in HostNames : CachedServices(h) = ServicesOfHost(h)

\* C11: a key of a dependency map that names a host or a service missing
\* from the registry is skipped: GetParentHosts returns the registered hosts
\* the other keys name, GetParentServices returns the services the keys
\* that resolve refer to, and IsReachable returns a value; none of the three
\* calls ends with an error.
C11_MissingEntriesSkipped ==
    /\ last_op.op = "GetParentHosts" =>
          last_op.result =
              Returned((KeysOf(dependencies[last_op.host].hostdependencies)
                           \ {last_op.host}) \cap DOMAIN host_objects)
    /\ last_op.op = "GetParentServices" =>
          last_op.result =
              Returned(UNION {ReferredServices(last_op.host, key) :
                  key \in KeysOf(dependencies[last_op.host].servicedependencies)})
    /\ last_op.op = "IsReachable" => ~last_op.result.threw

\* C12: a commit of a host whose declarations hold a value that is neither
\* a scalar nor a Dictionary returns normally: the handler does not throw.
C12_InvalidDeclarationReported ==
    last_op.op = "CommitHost" => ~last_op.threw

\* C13: ResolveService(name) on host h yields the service "<h>-<name>"
\* whenever it is registered, also when a service `name` is registered too;
\* it yields the service `name` only when "<h>-<name>" is not registered;
\* with neither registered the call fails with an error.
C13_ResolveOrder ==
    last_op.op = "ResolveService" =>
        LET combined == CombinedName(last_op.host, last_op.name)
        IN  /\ combined \in DOMAIN service_objects =>
                  last_op.result = Returned(combined)
            /\ (combined \notin DOMAIN service_objects
                   /\ last_op.name \in DOMAIN service_objects) =>
                  last_op.result = Returned(last_op.name)
            /\ (combined \notin DOMAIN service_objects
                   /\ last_op.name \notin DOMAIN service_objects) =>
                  last_op.result.threw

\* C13 witness: both "<h>-<name>" and `name` are registered and the call
\* returned the host-scoped one.
C13_Witness ==
    /\ last_op.op = "ResolveService"
    /\ last_op.name \in DOMAIN service_objects
    /\ CombinedName(last_op.host, last_op.name) \in DOMAIN service_objects
    /\ last_op.result = Returned(CombinedName(last_op.host, last_op.name))

\* C14: IsFlapping returns true only when the switch of the entity is on,
\* the switch of the application is on and the stored flag is true; with
\* either switch off it returns false whatever the stored flag is; and the
\* call leaves the stored flapping state as it was.
C14_IsFlapping ==
    last_flapping_read.called =>
        /\ last_flapping_read.returned =
              (/\ last_flapping_read.enabled
               /\ last_flapping_read.app_enabled
               /\ last_flapping_read.before[3])
        /\ FlappingState = last_flapping_read.before

\* C14 witness: the stored flag is true, the switch of the entity is on,
\* the switch of the application is off, and IsFlapping returned false.
C14_Witness ==
    /\ last_flapping_read.called
    /\ flapping
    /\ enable_flapping
    /\ ~app_enable_flapping
    /\ last_flapping_read.returned = FALSE

\* C15: a call of UpdateFlappingStatus that changes the stored flag sets
\* the last-change time to the time of the call.  (A call that leaves the
\* flag as it was writes no time: the code has no other write of it.)
C15_LastChangeRecorded ==
    (observations # <<>> /\ flapping # flapping_before) =>
        flapping_last_change = now - 1

\* the handler is between its first statement and its last
InHandler == pc[Committer] \in {"commit_loop", "unregister_loop", "store"}

\* the services of both the old and the new generation of the host whose
\* commit is under way
KeptServices ==
    KeysOf(local[Committer].oldServices)
        \cap DeclaredNames(local[Committer].item,
                           local[Committer].serviceDescs)

\* C16: during a re-commit of a host, at every step of the handler a service
\* of both the old and the new generation that was registered when the
\* commit began is registered; and whenever a service leaves the registry,
\* every service of the new generation has been committed.
C16_BuildDiffSwap ==
    /\ [](InHandler =>
             \A svc \in KeptServices \cap local[Committer].registered :
                svc \in DOMAIN service_objects)
    /\ [][(DOMAIN service_objects' # DOMAIN service_objects
            /\ ~(DOMAIN service_objects \subseteq DOMAIN service_objects'))
              => DeclaredNames(local[Committer].item,
                               local[Committer].serviceDescs)
                    \subseteq DOMAIN service_objects]_vars

\* C16 as stated: at every step of the handler every service of both the
\* old and the new generation is registered, whether or not it was
\* registered when the commit began.
C16_KeptAlwaysRegistered ==
    InHandler => \A svc \in KeptServices : svc \in DOMAIN service_objects

\* C16 witness: the handler is in its loop over the old services, has
\* unregistered one that the new generation lacks, and a service of both
\* generations is registered.
C16_Witness ==
    /\ pc[Committer] = "unregister_loop"
    /\ \E svc \in KeptServices : svc \in DOMAIN service_objects
    /\ \E svc \in KeysOf(local[Committer].oldServices) :
         /\ svc \in local[Committer].registered
         /\ svc \notin DOMAIN service_objects

\* C17: the clear of an expiring GetAcknowledgement is atomic for the other
\* workers on the host.  No state another worker can act in has the type
\* cleared by the read while the expiry is still the value the read found;
\* and when one worker's read has cleared and another worker has stored a
\* new type and expiry, the host ends with both cleared or with both as
\* newly stored.
C17_ClearIsAtomic ==
    /\ \A w \in Workers :
          ~(/\ pc[w] = "clear_expiry"
            /\ acknowledgement = Some(AcknowledgementNone)
            /\ GetAcknowledgementExpiry = local[w].expiry)
    /\ \A r \in Workers, w \in Workers :
          (/\ pc[r] = "done" /\ local[r].op = "read" /\ local[r].cleared
           /\ pc[w] = "done" /\ local[w].op = "set")
             => \/ /\ acknowledgement = Some(AcknowledgementNone)
                   /\ acknowledgement_expiry = Some(0)
                \/ /\ acknowledgement = Some(local[w].type)
                   /\ acknowledgement_expiry = Some(local[w].expiry)

\* C18: two UpdateFlappingStatus calls made at the same time on a fresh
\* entity end as if one had run after the other: the index has advanced by
\* two, slots 0 and 1 of the buffer hold the two observations in one of the
\* two orders, and the stored percentage and flag are those of that buffer.
C18_AsIfSerial ==
    (\A w \in Workers : pc[w] = "done" /\ local[w].op = "update") =>
        \E first \in Workers, second \in Workers :
            /\ first # second
            /\ LET buf1 == NewBuffer(0, 0, local[first].stateChange)
                   buf2 == NewBuffer(buf1, 1, local[second].stateChange)
                   v1 == FlapValue(StateChanges100(buf1, 1), 0)
                   s2 == StateChanges100(buf2, 2)
               IN  /\ flapping_index = 2
                   /\ flapping_buffer = buf2
                   /\ flapping_current.n20 = s2
                   /\ flapping =
                         NewFlapping(
                             NewFlapping(FALSE, v1, flapping_threshold_low,
                                         flapping_threshold_high),
                             flapping_current, flapping_threshold_low,
                             flapping_threshold_high)

\* C19: every call of IsReachable and of GetParentHosts ends, with a value
\* or an error, whatever the host-dependency maps are, cyclic ones and
\* self-references among them; and the calls never nest deeper than two.
C19_Terminates ==
    /\ [](pc[Evaluator] = "running" =>
             Len(local[Evaluator].stack) < MaxDepth)
    /\ (pc[Evaluator] = "running") ~> (pc[Evaluator] = "done")

\* C19 witness: host a lists a-b and a-b lists a, and IsReachable on a has
\* returned a value.
C19_Witness ==
    /\ pc[Evaluator] = "done"
    /\ local[Evaluator].op = "IsReachable"
    /\ local[Evaluator].host = "a"
    /\ "a-b" \in KeysOf(dependencies["a"].hostdependencies)
    /\ "a" \in KeysOf(dependencies["a-b"].hostdependencies)
    /\ ~ValueOf(local[Evaluator].ret).threw

\* C20: with slot age i weighing 0.8 + 0.02*i, every weight is positive and
\* the 20 weights add up to 19.8, wherever the oldest slot is; so the
\* weighted total of any buffer is at most 19.8, and the percentage
\* 100 * total / 20 that UpdateFlappingStatus stores is at most 99: it is
\* 99 when all 20 bits are set and it never exceeds 100.
C20_MaxPercentage ==
    /\ \A i \in 0..(BufferBits - 1) : SlotWeight100(i) > 0
    /\ StateChanges100(AllOnes, flapping_index) = 20 * 99
    /\ flapping_current.n20 <= 20 * 99
    /\ flapping_buffer = AllOnes => flapping_current.n20 = 20 * 99

\* C20 as stated: with all 20 bits set the weighted total is 23.6 and the
\* stored percentage is 118.
C20_MaxIs118 ==
    flapping_buffer = AllOnes => flapping_current.n20 = 20 * 118

\* C20 witness: 20 calls in a row reported a state change, all 20 bits are
\* set and the stored percentage is 99.
C20_Witness ==
    /\ Len(observations) >= BufferBits
    /\ flapping_buffer = AllOnes
    /\ flapping_current.n20 = 20 * 99

\* the place of a key in the order a Dictionary iterates its keys
KeyPlace(key) ==
    CHOOSE i \in DOMAIN SortedServiceKeys : SortedServiceKeys[i] = key

\* the names the loop of lines 237-270 commits before it meets the first
\* declaration that is neither a scalar nor a Dictionary
CommittedBeforeAbort(hostName, declared) ==
    LET keys == DOMAIN declared
        bad == {k \in keys : declared[k] \notin {"scalar", "dictionary"}}
    IN  {CombinedName(hostName, k) :
            k \in {j \in keys :
                     \A b \in bad : KeyPlace(j) < KeyPlace(b)}}

\* the set a host's convenience_services attribute names
Recorded(services) == IF IsEmpty(services) THEN {} ELSE ValueOf(services)

\* a run of ObjectCommittedHandler for an item that is not a Host, or that
\* names no existing host, changes no host and no registration
EarlyReturnChangesNothing ==
    /\ last_op'.op = "CommitService" =>
         /\ host_objects' = host_objects
         /\ DOMAIN service_objects' =
                DOMAIN service_objects \cup {last_op'.service}
    /\ last_op'.op = "CommitAbstractHost" =>
         /\ ~last_op'.threw
         /\ host_objects' = host_objects
         /\ service_objects' = service_objects

\* C21: a run of ObjectCommittedHandler that aborts on an invalid inline
\* declaration leaves convenience_services of the host, and every other
\* host, as it was and unregisters no service; the services committed
\* before the abort are registered afterwards, and such a service is
\* recorded in convenience_services exactly when the set held it before
\* the run.  A run for an item that is not a Host, or that names no
\* existing host, changes no host and no registration.
C21_AbortLeavesSetAlone ==
    [][/\ (last_op'.op = "CommitHost" /\ last_op'.threw) =>
            LET h == last_op'.host
                old == IF h \in DOMAIN host_objects
                          THEN host_objects[h].convenience_services
                          ELSE Empty
                committed ==
                    CommittedBeforeAbort(h, ValueOf(host_objects'[h].services))
            IN  /\ host_objects'[h].convenience_services = old
                /\ \A g \in DOMAIN host_objects \ {h} :
                       /\ g \in DOMAIN host_objects'
                       /\ host_objects'[g] = host_objects[g]
                /\ DOMAIN service_objects \subseteq DOMAIN service_objects'
                /\ committed \subseteq DOMAIN service_objects'
                /\ DOMAIN service_objects' =
                       DOMAIN service_objects \cup committed
                /\ committed
                       \cap Recorded(host_objects'[h].convenience_services)
                     = committed \cap Recorded(old)
       /\ EarlyReturnChangesNothing
      ]_vars

\* C21 as stated: after an aborted run the set is unchanged, no service
\* has been unregistered, and the services committed before the abort are
\* registered and none of them is recorded in convenience_services.
C21_CommittedNeverRecorded ==
    [][/\ (last_op'.op = "CommitHost" /\ last_op'.threw) =>
            LET h == last_op'.host
                old == IF h \in DOMAIN host_objects
                          THEN host_objects[h].convenience_services
                          ELSE Empty
                committed ==
                    CommittedBeforeAbort(h, ValueOf(host_objects'[h].services))
            IN  /\ host_objects'[h].convenience_services = old
                /\ DOMAIN service_objects \subseteq DOMAIN service_objects'
                /\ committed \subseteq DOMAIN service_objects'
                /\ committed
                       \cap Recorded(host_objects'[h].convenience_services)
                     = {}
       /\ EarlyReturnChangesNothing
      ]_vars

\* C21 witness: host a, whose convenience_services was {a-b-c}, was
\* committed again with the valid declaration b-c and an invalid one c:
\* the handler aborted after it committed a-b-c again, a-b-c is
\* registered, and the stored set is still {a-b-c}.
C21_Witness ==
    /\ last_op.op = "CommitHost"
    /\ last_op.threw
    /\ last_op.host = "a"
    /\ last_op.old = Some({"a-b-c"})
    /\ host_objects["a"].services =
           Some("b-c" :> "scalar" @@ "c" :> "other")
    /\ host_objects["a"].convenience_services = Some({"a-b-c"})
    /\ "a-b-c" \in DOMAIN service_objects

=============================================================================
